---- MODULE Spec2Model ----
(***************************************************************************)
(* Model of helix-core's span-to-event translation (syntax/span.rs) and of *)
(* the HighlightSet used to compare highlight sources                      *)
(* (syntax/highlight_set.rs).                                              *)
(*                                                                         *)
(* One behaviour is: a producer builds a span vector, span_iter is         *)
(* constructed on it and next() is called until it returns None;           *)
(* flat_span_iter is constructed on the same vector and pulled in the same *)
(* way.  Every next() call is one step.  In a behaviour of the HighlightSet  *)
(* a caller builds an iterator of spans or of events and extends the set   *)
(* with it, any number of times; every extend call is one step.  In a      *)
(* behaviour of the TreeCursor (syntax/tree_cursor.rs) the parse trees of  *)
(* the injection layers are built, the cursor is created on them and moved *)
(* by its goto_* methods; every call is one step.                          *)
(***************************************************************************)
EXTENDS Integers, Sequences, FiniteSets, TLC

\* Largest byte offset of an input span.
MaxPos == 4
\* Largest number of spans in an input vector.
MaxSpans == 4
\* Largest byte offset and largest number of spans of an input vector built
\* without regard to the preconditions of the constructors.
AnyMaxPos == 3
AnyMaxSpans == 3
\* Largest number of nodes of the parse trees of all injection layers together.
TreeMaxNodes == 5
\* Largest number of grammars handed to run_parallel, and the number of threads
\* of its pool (threadpool::Builder::new().build(): one per CPU).
MaxGrammars == 3
NumThreads == 2
\* Largest byte offset of a span or Source handed to HighlightSet::extend.
SetMaxPos == 2
\* Largest number of items handed to HighlightSet::extend, over all calls.
MaxItems == 3

VARIABLES
    debug_assertions, \* cfg!(debug_assertions): debug_assert! is compiled in
    phase,        \* "input": the vector is being produced; then the iterator in
                  \* use, or "<constructor>_panic": its debug_assert! failed
    input,        \* the Vec<Span> handed to span_iter / flat_span_iter
    spans,        \* SpanIter.spans (working copy, rewritten by partitioning)
    index,        \* SpanIter.index (0-based, as in the source)
    event_queue,  \* SpanIter.event_queue
    span_ends,    \* SpanIter.span_ends
    cursor,       \* SpanIter.cursor
    out,          \* events returned so far by SpanIter::next
    done,         \* SpanIter::next has returned None
    panicked,     \* a call of SpanIter panicked: a debug_assert! failed, an
                  \* index was out of bounds or a rotation exceeded its slice
    last,         \* which branch of SpanIter::next the last call took
    started,      \* history: the span (or span piece) of every start_span call
    flat_pos,     \* FlatSpanIter: number of input spans consumed by the filter
    flat_inner,   \* FlatSpanIter: events left of the current flat_map array
    flat_out,     \* events returned so far by FlatSpanIter::next
    flat_done,    \* FlatSpanIter::next has returned None
    highlight_set,\* the HighlightSet (self.0) after the last completed extend
    set_before,   \* history: the HighlightSet before the last extend
    iter_items,   \* the items of the iterator built for an extend, or, when
                  \* `extended`, the items the last extend consumed
    iter_kind,    \* "spans" or "events": the item type; "none": nothing built
    extended,     \* the last step was an extend call
    pushed,       \* number of items built so far, over all iterators
    tc_phase,     \* "build": the layers are being built; "walk": the TreeCursor exists
    layers,       \* TreeCursor.layers, the fixed part: for each layer its parse
                  \* tree (nodes[n] is the parent of node n, 0 for the root,
                  \* node 1; siblings are in the order of their numbers) and
                  \* InjectionLayer.parent (<<layer, node>> for Some, <<>> for
                  \* None), and the byte ranges of its nodes once it is parsed
    cursors,      \* InjectionLayer.cursor of each layer: the node it is on and
                  \* the node it was created on or last reset to (`top`)
    current,      \* TreeCursor.current (TreeCursor.root is layer 1)
    tc_last,      \* the method of TreeCursor called last
    tc_result,    \* what it returned (TRUE for the unit of goto_byte_range)
    tc_panicked,  \* it hit an unreachable!()
    rp_pc,        \* run_parallel: "submit" (the for loop), "join" (in pool.join()),
                  \* "read" (in rx.try_iter().sum()), "done" (after assert_eq!)
    n_jobs,       \* run_parallel: n_jobs
    queued_count, \* the pool: jobs executed (submitted) and not yet taken
    workers,      \* the pool's threads: "idle", or where the thread is in the
                  \* closure: "job" (in job(grammar)), "send" (before tx.send(1)),
                  \* "sent" (after it, the closure not yet returned)
    channel,      \* messages sent on tx and not yet read from rx (each is 1)
    sum,          \* the sum of the messages read so far by try_iter().sum()
    panic_count,  \* jobs whose job(grammar) panicked
    assert_ok     \* "none", or the outcome of assert_eq!: "ok" / "failed"

vars == <<debug_assertions, phase, input, spans, index, event_queue, span_ends, cursor, out, done,
          panicked, last, started, flat_pos, flat_inner, flat_out, flat_done,
          highlight_set, set_before, iter_items, iter_kind, extended, pushed,
          tc_phase, layers, cursors, current, tc_last, tc_result, tc_panicked,
          rp_pc, n_jobs, queued_count, workers, channel, sum, panic_count,
          assert_ok>>

span_vars == <<spans, index, event_queue, span_ends, cursor, out, done,
               panicked, last, started>>

flat_vars == <<flat_pos, flat_inner, flat_out, flat_done>>

set_vars == <<highlight_set, set_before, iter_items, iter_kind, extended, pushed>>

tree_vars == <<tc_phase, layers, cursors, current, tc_last, tc_result, tc_panicked>>

pool_vars == <<rp_pc, n_jobs, queued_count, workers, channel, sum, panic_count,
               assert_ok>>

----------------------------------------------------------------------------
\* Span and HighlightEvent values

Span(scope, start, end) == [scope |-> scope, start |-> start, end |-> end]

HighlightStart(scope) == [type |-> "HighlightStart", scope |-> scope, start |-> 0, end |-> 0]

HighlightEnd == [type |-> "HighlightEnd", scope |-> 0, start |-> 0, end |-> 0]

Source(start, end) == [type |-> "Source", scope |-> 0, start |-> start, end |-> end]

IsStart(e) == e.type = "HighlightStart"

IsEnd(e) == e.type = "HighlightEnd"

IsSource(e) == e.type = "Source"

\* usize::cmp
CmpUsize(a, b) == IF a < b THEN "Less" ELSE IF a = b THEN "Equal" ELSE "Greater"

\* Ordering::reverse
Reverse(o) == IF o = "Less" THEN "Greater" ELSE IF o = "Greater" THEN "Less" ELSE "Equal"

\* Variant of the comparison without the reverse(): ascending by end for ties.
SpanCmp_EndAscending(self, other) ==
    IF self.start = other.start
    THEN CmpUsize(self.end, other.end)
    ELSE CmpUsize(self.start, other.start)

\* impl Ord for Span: ascending by start, then descending by end
SpanCmp(self, other) ==
    IF self.start = other.start
    THEN Reverse(CmpUsize(self.end, other.end))
    ELSE CmpUsize(self.start, other.start)

\* self <= other, derived from cmp by PartialOrd
SpanLe(self, other) == SpanCmp(self, other) # "Greater"

\* debug_assert!(spans.windows(2).all(|window| window[0] <= window[1]))
SpanIterPre(v) == \A i \in 1..(Len(v) - 1) : SpanLe(v[i], v[i + 1])

\* Variant of the assertion that compares the starts only.
FlatSpanIterPre_StartsOnly(v) ==
    \A i \in 1..(Len(v) - 1) : v[i + 1].start >= v[i].start

\* debug_assert!(spans.windows(2).all(|window| window[1].start >= window[0].end))
FlatSpanIterPre(v) == \A i \in 1..(Len(v) - 1) : v[i + 1].start >= v[i].end

----------------------------------------------------------------------------
\* Input vectors: the producer pushes spans with start <= end over 0..MaxPos, at
\* most MaxSpans of them, keeping the vector acceptable to span_iter or to
\* flat_span_iter.  The i-th span carries scope i-1, as the i-th generated span of
\* span_list() does.

Ranges == {r \in (0..MaxPos) \X (0..MaxPos) : r[1] <= r[2]}

PushSpan ==
    /\ phase = "input"
    /\ Len(input) < MaxSpans
    /\ \E r \in Ranges :
        LET v == Append(input, Span(Len(input), r[1], r[2])) IN
        /\ SpanIterPre(v) \/ FlatSpanIterPre(v)
        /\ input' = v
    /\ UNCHANGED <<debug_assertions, phase, span_vars, flat_vars, set_vars, tree_vars, pool_vars>>

\* Input vectors in any order: the producer pushes spans with start <= end over
\* 0..AnyMaxPos, at most AnyMaxSpans of them, whatever the spans before.
AnyRanges == {r \in (0..AnyMaxPos) \X (0..AnyMaxPos) : r[1] <= r[2]}

PushAnySpan ==
    /\ phase = "input"
    /\ Len(input) < AnyMaxSpans
    /\ \E r \in AnyRanges : input' = Append(input, Span(Len(input), r[1], r[2]))
    /\ UNCHANGED <<debug_assertions, phase, span_vars, flat_vars, set_vars, tree_vars, pool_vars>>

----------------------------------------------------------------------------
\* SpanIter

Last(s) == s[Len(s)]

Front(s) == SubSeq(s, 1, Len(s) - 1)

\* Vec::sort_unstable_by(|lhs, rhs| lhs.cmp(rhs).reverse()) on usize values
RECURSIVE InsertDesc(_, _)
InsertDesc(s, x) ==
    IF s = <<>> THEN <<x>>
    ELSE IF x >= Head(s) THEN <<x>> \o s
    ELSE <<Head(s)>> \o InsertDesc(Tail(s), x)

\* Variant of the sort without the reverse(): ascending order.
RECURSIVE InsertAsc(_, _)
InsertAsc(s, x) ==
    IF s = <<>> THEN <<x>>
    ELSE IF x <= Head(s) THEN <<x>> \o s
    ELSE <<Head(s)>> \o InsertAsc(Tail(s), x)

RECURSIVE SortDesc_Ascending(_)
SortDesc_Ascending(s) ==
    IF s = <<>> THEN <<>> ELSE InsertAsc(SortDesc_Ascending(Tail(s)), Head(s))

RECURSIVE SortDesc(_)
SortDesc(s) == IF s = <<>> THEN <<>> ELSE InsertDesc(SortDesc(Tail(s)), Head(s))

\* Variants of emit_span_end with one of its steps missing: the HighlightEnd is
\* not queued behind the Source; the cursor == end case is not told apart; the
\* cursor is not moved.
EmitSpanEnd_DropsEnd(cur, end) ==
    IF cur # end
    THEN [event |-> Source(cur, end), queued |-> <<>>,
          cursor |-> end, assert_ok |-> cur < end]
    ELSE [event |-> HighlightEnd, queued |-> <<>>,
          cursor |-> end, assert_ok |-> TRUE]

EmitSpanEnd_AlwaysSource(cur, end) ==
    [event |-> Source(cur, end), queued |-> <<HighlightEnd>>,
     cursor |-> end, assert_ok |-> cur <= end]

EmitSpanEnd_KeepsCursor(cur, end) ==
    IF cur # end
    THEN [event |-> Source(cur, end), queued |-> <<HighlightEnd>>,
          cursor |-> cur, assert_ok |-> cur < end]
    ELSE [event |-> HighlightEnd, queued |-> <<>>,
          cursor |-> cur, assert_ok |-> TRUE]

\* SpanIter::emit_span_end: the cursor moves to `end`; the call returns a Source
\* and queues the HighlightEnd, or returns the HighlightEnd when nothing lies
\* between the cursor and `end`.
EmitSpanEnd(cur, end) ==
    IF cur # end
    THEN [event |-> Source(cur, end), queued |-> <<HighlightEnd>>,
          cursor |-> end, assert_ok |-> cur < end]
    ELSE [event |-> HighlightEnd, queued |-> <<>>,
          cursor |-> end, assert_ok |-> TRUE]

\* Variant of the partition loop that stops at a span ending at the intersect
\* (break on span.end <= intersect).
RECURSIVE PartitionStop_BreakAtEqual(_, _, _, _)
PartitionStop_BreakAtEqual(v, i, cur, intersect) ==
    IF i >= Len(v) THEN i
    ELSE IF v[i + 1].start # cur \/ v[i + 1].end <= intersect THEN i
    ELSE PartitionStop_BreakAtEqual(v, i + 1, cur, intersect)

\* The while-let loop of partition_spans_at: the first index i >= index at which
\* the loop stops (indices are 0-based, v is 1-based).
RECURSIVE PartitionStop(_, _, _, _)
PartitionStop(v, i, cur, intersect) ==
    IF i >= Len(v) THEN i
    ELSE IF v[i + 1].start # cur \/ v[i + 1].end < intersect THEN i
    ELSE PartitionStop(v, i + 1, cur, intersect)

\* Variant of the take_while with a strict comparison (span < intersect_span).
RECURSIVE TakeWhileLe_Strict(_, _, _)
TakeWhileLe_Strict(v, i, intersect_span) ==
    IF i >= Len(v) THEN 0
    ELSE IF SpanCmp(v[i + 1], intersect_span) = "Less"
         THEN 1 + TakeWhileLe_Strict(v, i + 1, intersect_span)
         ELSE 0

\* Variant of the count that runs one element past the end of the vector.
RECURSIVE TakeWhileLe_PastEnd(_, _, _)
TakeWhileLe_PastEnd(v, i, intersect_span) ==
    IF i > Len(v) THEN 0
    ELSE IF i = Len(v) THEN 1
    ELSE IF SpanLe(v[i + 1], intersect_span)
         THEN 1 + TakeWhileLe_PastEnd(v, i + 1, intersect_span)
         ELSE 0

\* .take_while(|&&span| span <= intersect_span).count() over v[i..]
RECURSIVE TakeWhileLe(_, _, _)
TakeWhileLe(v, i, intersect_span) ==
    IF i >= Len(v) THEN 0
    ELSE IF SpanLe(v[i + 1], intersect_span)
         THEN 1 + TakeWhileLe(v, i + 1, intersect_span)
         ELSE 0

\* Variant of the rotation in the other direction: slice.rotate_right(mid).
RotateLeft_Right(slice, mid) ==
    SubSeq(slice, Len(slice) - mid + 1, Len(slice))
        \o SubSeq(slice, 1, Len(slice) - mid)

\* slice.rotate_left(mid)
RotateLeft(slice, mid) == SubSeq(slice, mid + 1, Len(slice)) \o SubSeq(slice, 1, mid)

\* Variant of partition_spans_at whose loop rewrites the end of the spans left in
\* the vector instead of their start.
PartitionSpansAt_CutsEnd(v, idx, cur, intersect) ==
    LET first_partitioned_span == v[idx + 1]
        i == PartitionStop(v, idx, cur, intersect)
        num_partitioned_spans == i - idx
        pieces == [k \in 1..num_partitioned_spans |->
                      [v[idx + k] EXCEPT !.end = intersect]]
        cut == [k \in 1..Len(v) |->
                   IF k > idx /\ k <= i THEN [v[k] EXCEPT !.end = intersect]
                   ELSE v[k]]
        intersect_span == [first_partitioned_span EXCEPT !.start = intersect]
        num_spans_to_resort == TakeWhileLe(cut, i, intersect_span)
        first_sorted_span == i + num_spans_to_resort
        bounds_ok == /\ i <= Len(v)
                     /\ num_spans_to_resort # 0 =>
                            /\ idx <= first_sorted_span
                            /\ first_sorted_span <= Len(v)
                            /\ num_partitioned_spans <= first_sorted_span - idx
        rotated == IF num_spans_to_resort # 0 /\ bounds_ok
                   THEN SubSeq(cut, 1, idx)
                        \o RotateLeft(SubSeq(cut, idx + 1, first_sorted_span),
                                      num_partitioned_spans)
                        \o SubSeq(cut, first_sorted_span + 1, Len(cut))
                   ELSE cut
    IN  [spans |-> rotated, pieces |-> pieces, bounds_ok |-> bounds_ok]

\* SpanIter::partition_spans_at: the spans vector after the call and the pieces
\* handed to start_span, in call order.  bounds_ok: self.spans[i..] and
\* self.spans[self.index..first_sorted_span] lie inside the vector and
\* rotate_left is given no more than the length of its slice (each panics
\* otherwise, in every build, and the vector is left as cut).
PartitionSpansAt(v, idx, cur, intersect) ==
    LET first_partitioned_span == v[idx + 1]
        i == PartitionStop(v, idx, cur, intersect)
        num_partitioned_spans == i - idx
        pieces == [k \in 1..num_partitioned_spans |->
                      [v[idx + k] EXCEPT !.end = intersect]]
        cut == [k \in 1..Len(v) |->
                   IF k > idx /\ k <= i THEN [v[k] EXCEPT !.start = intersect]
                   ELSE v[k]]
        intersect_span == [first_partitioned_span EXCEPT !.start = intersect]
        num_spans_to_resort == TakeWhileLe(cut, i, intersect_span)
        first_sorted_span == i + num_spans_to_resort
        bounds_ok == /\ i <= Len(v)
                     /\ num_spans_to_resort # 0 =>
                            /\ idx <= first_sorted_span
                            /\ first_sorted_span <= Len(v)
                            /\ num_partitioned_spans <= first_sorted_span - idx
        rotated == IF num_spans_to_resort # 0 /\ bounds_ok
                   THEN SubSeq(cut, 1, idx)
                        \o RotateLeft(SubSeq(cut, idx + 1, first_sorted_span),
                                      num_partitioned_spans)
                        \o SubSeq(cut, first_sorted_span + 1, Len(cut))
                   ELSE cut
    IN  [spans |-> rotated, pieces |-> pieces, bounds_ok |-> bounds_ok]

\* Variant of the loop without the test of span.start: it starts every span left.
StartStop_All(v, i, cur) == Len(v)

\* The loop "start any new spans at the current position": the index at which
\* it stops.
RECURSIVE StartStop(_, _, _)
StartStop(v, i, cur) ==
    IF i >= Len(v) THEN i
    ELSE IF v[i + 1].start # cur THEN i
    ELSE StartStop(v, i + 1, cur)

\* The subslice value computed in next(): <<end>> for Some(end), <<>> for None.
Subslice(span, ends) ==
    IF ends # <<>> /\ span.start < Last(ends) /\ span.end > Last(ends)
    THEN <<Last(ends)>>
    ELSE <<>>

\* span_iter: the debug_assert on the ordering panics, or it passes (or is
\* compiled out) and the SpanIter is built.
SpanIterNew ==
    /\ phase = "input"
    /\ IF debug_assertions /\ ~SpanIterPre(input)
       THEN /\ phase' = "span_iter_panic"
            /\ UNCHANGED <<spans, index, event_queue, span_ends, cursor>>
       ELSE /\ phase' = "span_iter"
            /\ spans' = input
            /\ index' = 0
            /\ event_queue' = <<>>
            /\ span_ends' = <<>>
            /\ cursor' = 0
    /\ UNCHANGED <<input, out, done, panicked, last, started>>
    /\ UNCHANGED flat_vars
    /\ UNCHANGED <<set_vars, tree_vars, pool_vars, debug_assertions>>

\* The SpanIter exists and no debug_assert of it has failed.
SpanIterLive == phase = "span_iter" /\ ~panicked

\* next(): "Emit any queued highlight events".
NextQueued ==
    /\ SpanIterLive
    /\ event_queue # <<>>
    /\ out' = Append(out, Head(event_queue))
    /\ event_queue' = Tail(event_queue)
    /\ last' = "queued"
    /\ done' = FALSE
    /\ UNCHANGED <<phase, input, spans, index, span_ends, cursor, panicked, started>>
    /\ UNCHANGED flat_vars
    /\ UNCHANGED <<set_vars, tree_vars, pool_vars, debug_assertions>>

\* next(): no more spans; self.span_ends.pop().map(|end| self.emit_span_end(end))
\* with an open span left.
NextDrain ==
    /\ SpanIterLive
    /\ event_queue = <<>>
    /\ index = Len(spans)
    /\ span_ends # <<>>
    /\ LET r == EmitSpanEnd(cursor, Last(span_ends)) IN
        /\ span_ends' = Front(span_ends)
        /\ cursor' = r.cursor
        /\ event_queue' = r.queued
        /\ out' = Append(out, r.event)
        /\ panicked' = (debug_assertions /\ ~r.assert_ok)
    /\ last' = "drain"
    /\ done' = FALSE
    /\ UNCHANGED <<phase, input, spans, index, started>>
    /\ UNCHANGED flat_vars
    /\ UNCHANGED <<set_vars, tree_vars, pool_vars, debug_assertions>>

\* Variant of next() that reads spans[index] before comparing index with the
\* length of the vector: the index is out of bounds and the call panics.
NextNone_IndexesFirst ==
    /\ SpanIterLive
    /\ event_queue = <<>>
    /\ index = Len(spans)
    /\ span_ends = <<>>
    /\ panicked' = TRUE
    /\ last' = "none"
    /\ UNCHANGED <<phase, input, spans, index, event_queue, span_ends, cursor,
                   out, done, started>>
    /\ UNCHANGED flat_vars
    /\ UNCHANGED <<set_vars, tree_vars, pool_vars, debug_assertions>>

\* next(): no more spans and nothing open: returns None.
NextNone ==
    /\ SpanIterLive
    /\ event_queue = <<>>
    /\ index = Len(spans)
    /\ span_ends = <<>>
    /\ done' = TRUE
    /\ last' = "none"
    /\ UNCHANGED <<phase, input, spans, index, event_queue, span_ends, cursor,
                   out, panicked, started>>
    /\ UNCHANGED flat_vars
    /\ UNCHANGED <<set_vars, tree_vars, pool_vars, debug_assertions>>

\* The test of next() that finishes an in-progress span: the new span is past
\* the last (smallest) open end.
FinishDue(span, ends) == ends # <<>> /\ span.start >= Last(ends)

\* next(): "Finish processing in-progress spans that end before the new span
\* starts".
NextFinish ==
    /\ SpanIterLive
    /\ event_queue = <<>>
    /\ index < Len(spans)
    /\ FinishDue(spans[index + 1], span_ends)
    /\ LET r == EmitSpanEnd(cursor, Last(span_ends)) IN
        /\ span_ends' = Front(span_ends)
        /\ cursor' = r.cursor
        /\ event_queue' = r.queued
        /\ out' = Append(out, r.event)
        /\ panicked' = (debug_assertions /\ ~r.assert_ok)
    /\ last' = "finish"
    /\ done' = FALSE
    /\ UNCHANGED <<phase, input, spans, index, started>>
    /\ UNCHANGED flat_vars
    /\ UNCHANGED <<set_vars, tree_vars, pool_vars, debug_assertions>>

\* Variant of the test below without !self.span_ends.is_empty().
ConnectiveDue_IgnoresOpen(span, cur, ends) == span.start # cur

\* The test of next() that emits a connective Source:
\* span.start != start && !self.span_ends.is_empty()
ConnectiveDue(span, cur, ends) == span.start # cur /\ ends # <<>>

\* Variant of the connective branch that leaves the cursor where it was
\* (without the replace of self.cursor).
NextConnective_KeepsCursor ==
    /\ SpanIterLive
    /\ event_queue = <<>>
    /\ index < Len(spans)
    /\ ~FinishDue(spans[index + 1], span_ends)
    /\ ConnectiveDue(spans[index + 1], cursor, span_ends)
    /\ cursor' = cursor
    /\ out' = Append(out, Source(cursor, spans[index + 1].start))
    /\ panicked' = (debug_assertions /\ ~(cursor < spans[index + 1].start))
    /\ last' = "connective"
    /\ done' = FALSE
    /\ UNCHANGED <<phase, input, spans, index, event_queue, span_ends, started>>
    /\ UNCHANGED flat_vars
    /\ UNCHANGED <<set_vars, tree_vars, pool_vars, debug_assertions>>

\* next(): "Emit a Source event between consecutive HighlightStart events".
NextConnective ==
    /\ SpanIterLive
    /\ event_queue = <<>>
    /\ index < Len(spans)
    /\ ~FinishDue(spans[index + 1], span_ends)
    /\ ConnectiveDue(spans[index + 1], cursor, span_ends)
    /\ cursor' = spans[index + 1].start
    /\ out' = Append(out, Source(cursor, spans[index + 1].start))
    /\ panicked' = (debug_assertions /\ ~(cursor < spans[index + 1].start))
    /\ last' = "connective"
    /\ done' = FALSE
    /\ UNCHANGED <<phase, input, spans, index, event_queue, span_ends, started>>
    /\ UNCHANGED flat_vars
    /\ UNCHANGED <<set_vars, tree_vars, pool_vars, debug_assertions>>

\* The tail of next() from "if let Some(intersect) = subslice": partition, start
\* the spans at the cursor, sort span_ends, pop the first queued event.
OpenSpans(v, idx, cur, ends, subslice) ==
    LET p == IF subslice # <<>>
             THEN PartitionSpansAt(v, idx, cur, subslice[1])
             ELSE [spans |-> v, pieces |-> <<>>, bounds_ok |-> TRUE]
        stop == StartStop(p.spans, idx, cur)
        whole == SubSeq(p.spans, idx + 1, stop)
        opened == p.pieces \o whole
    IN  [spans |-> p.spans,
         index |-> stop,
         opened |-> opened,
         queue |-> [k \in 1..Len(opened) |-> HighlightStart(opened[k].scope)],
         span_ends |-> SortDesc(ends \o [k \in 1..Len(opened) |-> opened[k].end]),
         assert_ok |-> \A k \in 1..Len(opened) : opened[k].start <= opened[k].end,
         bounds_ok |-> p.bounds_ok]

\* next(): the next span starts at the cursor or nothing is open; the spans at
\* the new cursor are started, partitioned at the earliest open end if needed.
NextOpen ==
    /\ SpanIterLive
    /\ event_queue = <<>>
    /\ index < Len(spans)
    /\ ~FinishDue(spans[index + 1], span_ends)
    /\ ~ConnectiveDue(spans[index + 1], cursor, span_ends)
    /\ LET span == spans[index + 1]
           subslice == Subslice(span, span_ends)
           r == OpenSpans(spans, index, span.start, span_ends, subslice)
       IN
        /\ cursor' = span.start
        /\ spans' = r.spans
        /\ index' = r.index
        /\ span_ends' = r.span_ends
        /\ started' = started \o r.opened
        /\ panicked' = ((debug_assertions /\ ~r.assert_ok) \/ ~r.bounds_ok)
        /\ IF r.queue # <<>>
           THEN /\ out' = Append(out, Head(r.queue))
                /\ event_queue' = Tail(r.queue)
                /\ done' = FALSE
           ELSE /\ out' = out
                /\ event_queue' = <<>>
                /\ done' = TRUE
        /\ last' = IF subslice # <<>> THEN "partition" ELSE "open"
    /\ UNCHANGED <<phase, input>>
    /\ UNCHANGED flat_vars
    /\ UNCHANGED <<set_vars, tree_vars, pool_vars, debug_assertions>>

----------------------------------------------------------------------------
\* FlatSpanIter

\* Variants of the flat_map array: the Source in front of the HighlightStart; the
\* HighlightEnd missing.
FlatTriple_SourceFirst(span) ==
    <<Source(span.start, span.end), HighlightStart(span.scope), HighlightEnd>>

FlatTriple_NoEnd(span) ==
    <<HighlightStart(span.scope), Source(span.start, span.end)>>

\* The array built by the flat_map closure of flat_span_iter.
FlatTriple(span) ==
    <<HighlightStart(span.scope), Source(span.start, span.end), HighlightEnd>>

\* Variant of the filter that keeps zero-width spans.
FilterNext_KeepsEmpty(v, n) == IF n >= Len(v) THEN <<>> ELSE <<n + 1>>

\* .filter(|span| span.start != span.end) over the spans after the first n:
\* <<k>> when the k-th span of v is the next one kept, <<>> when none is left.
RECURSIVE FilterNext(_, _)
FilterNext(v, n) ==
    IF n >= Len(v) THEN <<>>
    ELSE IF v[n + 1].start # v[n + 1].end THEN <<n + 1>>
    ELSE FilterNext(v, n + 1)

\* flat_span_iter, on a fresh vector or on the vector a finished SpanIter was
\* built on: the debug_assert on non-overlap panics, or it passes (or is
\* compiled out) and the FlatSpanIter is built.
FlatSpanIterNew ==
    /\ phase = "input" \/ (phase = "span_iter" /\ done)
    /\ IF debug_assertions /\ ~FlatSpanIterPre(input)
       THEN /\ phase' = "flat_span_iter_panic"
            /\ UNCHANGED <<flat_pos, flat_inner>>
       ELSE /\ phase' = "flat_span_iter"
            /\ flat_pos' = 0
            /\ flat_inner' = <<>>
    /\ UNCHANGED <<input, flat_out, flat_done>>
    /\ UNCHANGED span_vars
    /\ UNCHANGED <<set_vars, tree_vars, pool_vars, debug_assertions>>

\* FlatSpanIter::next: the flat_map yields from the current array, else pulls
\* the next span that passes the filter.
FlatNext ==
    /\ phase = "flat_span_iter"
    /\ IF flat_inner # <<>>
       THEN /\ flat_out' = Append(flat_out, Head(flat_inner))
            /\ flat_inner' = Tail(flat_inner)
            /\ UNCHANGED <<flat_pos, flat_done>>
       ELSE LET kept == FilterNext(input, flat_pos) IN
            IF kept # <<>>
            THEN /\ flat_pos' = kept[1]
                 /\ flat_out' = Append(flat_out, Head(FlatTriple(input[kept[1]])))
                 /\ flat_inner' = Tail(FlatTriple(input[kept[1]]))
                 /\ flat_done' = FALSE
            ELSE /\ flat_pos' = Len(input)
                 /\ flat_out' = flat_out
                 /\ flat_inner' = <<>>
                 /\ flat_done' = TRUE
    /\ UNCHANGED <<phase, input>>
    /\ UNCHANGED span_vars
    /\ UNCHANGED <<set_vars, tree_vars, pool_vars, debug_assertions>>

----------------------------------------------------------------------------
\* HighlightSet: Vec<u128>, one mask per byte position.  A mask is modelled as
\* the set of its bit numbers; position p is element p + 1 of the sequence.

\* Width of a mask (u128).
MaskBits == 128

\* Variant with a 64-bit mask (1u64 << highlight.0 as u8).
HighlightBit_U64(highlight) == (highlight % 256) % 64

\* 1u128 << highlight.0 as u8: the number of the bit that is set.  The cast
\* keeps the low 8 bits; a shift by 128 or more overflows and, where the
\* overflow check is off, shifts by the amount modulo the width.
HighlightBit(highlight) == (highlight % 256) % MaskBits

\* The shift of 1u128 << highlight.0 as u8 overflows the mask.
ShiftOverflows(highlight) == (highlight % 256) >= MaskBits

\* Variant of insert_highlights that assigns the mask (*dst = highlights)
\* where the code ORs it in.
InsertHighlights_Overwrites(set, start, end, highlights) ==
    LET resized == IF Len(set) < end
                   THEN set \o [k \in 1..(end - Len(set)) |-> {}]
                   ELSE set
        mask == {HighlightBit(h) : h \in highlights}
    IN  [p \in 1..Len(resized) |->
            IF start < p /\ p <= end THEN mask ELSE resized[p]]

\* HighlightSet::insert_highlights(positions = start..end, highlights), for
\* start <= end (the slice index panics otherwise).
InsertHighlights(set, start, end, highlights) ==
    LET resized == IF Len(set) < end
                   THEN set \o [k \in 1..(end - Len(set)) |-> {}]
                   ELSE set
        mask == {HighlightBit(h) : h \in highlights}
    IN  [p \in 1..Len(resized) |->
            IF start < p /\ p <= end THEN resized[p] \cup mask ELSE resized[p]]

\* Variant of trim that pops nothing.
Trim_Nothing(set) == set

\* HighlightSet::trim
RECURSIVE Trim(_)
Trim(set) ==
    IF set # <<>> /\ set[Len(set)] = {} THEN Trim(SubSeq(set, 1, Len(set) - 1)) ELSE set

\* The for loop of Extend<Span>::extend
RECURSIVE InsertSpans(_, _)
InsertSpans(set, v) ==
    IF v = <<>> THEN set
    ELSE InsertSpans(InsertHighlights(set, Head(v).start, Head(v).end, {Head(v).scope}),
                     Tail(v))

\* impl Extend<Span> for HighlightSet
ExtendSpans(set, v) == Trim(InsertSpans(set, v))

\* Variant of the event loop in which HighlightEnd leaves the stack alone.
RECURSIVE InsertEvents_NoPop(_, _, _)
InsertEvents_NoPop(set, events, state) ==
    IF events = <<>> THEN set
    ELSE LET event == Head(events) IN
         IF IsStart(event)
         THEN InsertEvents_NoPop(set, Tail(events), Append(state, event.scope))
         ELSE IF IsEnd(event)
         THEN InsertEvents_NoPop(set, Tail(events), state)
         ELSE InsertEvents_NoPop(InsertHighlights(set, event.start, event.end,
                                                  {state[k] : k \in 1..Len(state)}),
                                 Tail(events), state)

\* Variant of the event loop in which a Source takes only the top of the stack.
RECURSIVE InsertEvents_TopOnly(_, _, _)
InsertEvents_TopOnly(set, events, state) ==
    IF events = <<>> THEN set
    ELSE LET event == Head(events) IN
         IF IsStart(event)
         THEN InsertEvents_TopOnly(set, Tail(events), Append(state, event.scope))
         ELSE IF IsEnd(event)
         THEN InsertEvents_TopOnly(set, Tail(events),
                                   IF state = <<>> THEN state
                                   ELSE SubSeq(state, 1, Len(state) - 1))
         ELSE InsertEvents_TopOnly(InsertHighlights(set, event.start, event.end,
                                       IF state = <<>> THEN {}
                                       ELSE {state[Len(state)]}),
                                   Tail(events), state)

\* The for loop of Extend<HighlightEvent>::extend; state is the stack of open
\* highlights.
RECURSIVE InsertEvents(_, _, _)
InsertEvents(set, events, state) ==
    IF events = <<>> THEN set
    ELSE LET event == Head(events) IN
         IF IsStart(event)
         THEN InsertEvents(set, Tail(events), Append(state, event.scope))
         ELSE IF IsEnd(event)
         THEN InsertEvents(set, Tail(events),
                           IF state = <<>> THEN state
                           ELSE SubSeq(state, 1, Len(state) - 1))
         ELSE InsertEvents(InsertHighlights(set, event.start, event.end,
                                            {state[k] : k \in 1..Len(state)}),
                           Tail(events), state)

\* impl Extend<HighlightEvent> for HighlightSet
ExtendEvents(set, events) == Trim(InsertEvents(set, events, <<>>))

\* impl FromIterator<Span> for HighlightSet
FromSpans(v) == ExtendSpans(<<>>, v)

\* impl FromIterator<HighlightEvent> for HighlightSet
FromEvents(events) == ExtendEvents(<<>>, events)

\* Callers of extend: the iterator is built item by item, spans or events, with
\* start <= end over 0..SetMaxPos and the smallest and the largest scope; MaxItems items are built in
\* all.  A set can be extended again after an extend.

SetScopes == {0, MaskBits - 1}

SetRanges == {r \in (0..SetMaxPos) \X (0..SetMaxPos) : r[1] <= r[2]}

SetEvents ==
    {HighlightStart(k) : k \in SetScopes}
        \cup {HighlightEnd}
        \cup {Source(r[1], r[2]) : r \in SetRanges}

\* The caller adds a Span to the iterator it will pass to extend.
PushSpanItem ==
    /\ pushed < MaxItems
    /\ extended \/ iter_kind \in {"none", "spans"}
    /\ \E scope \in SetScopes, r \in SetRanges :
           iter_items' = Append(IF extended THEN <<>> ELSE iter_items,
                                Span(scope, r[1], r[2]))
    /\ iter_kind' = "spans"
    /\ extended' = FALSE
    /\ set_before' = highlight_set
    /\ pushed' = pushed + 1
    /\ UNCHANGED highlight_set
    /\ UNCHANGED <<debug_assertions, phase, input, span_vars, flat_vars, tree_vars, pool_vars>>

\* The caller adds a HighlightEvent to the iterator it will pass to extend.
PushEventItem ==
    /\ pushed < MaxItems
    /\ extended \/ iter_kind \in {"none", "events"}
    /\ \E event \in SetEvents :
           iter_items' = Append(IF extended THEN <<>> ELSE iter_items, event)
    /\ iter_kind' = "events"
    /\ extended' = FALSE
    /\ set_before' = highlight_set
    /\ pushed' = pushed + 1
    /\ UNCHANGED highlight_set
    /\ UNCHANGED <<debug_assertions, phase, input, span_vars, flat_vars, tree_vars, pool_vars>>

\* <HighlightSet as Extend<Span>>::extend(spans)
ExtendWithSpans ==
    /\ ~extended
    /\ iter_kind \in {"none", "spans"}
    /\ highlight_set' = ExtendSpans(highlight_set, iter_items)
    /\ set_before' = highlight_set
    /\ iter_kind' = "spans"
    /\ extended' = TRUE
    /\ UNCHANGED <<iter_items, pushed>>
    /\ UNCHANGED <<debug_assertions, phase, input, span_vars, flat_vars, tree_vars, pool_vars>>

\* <HighlightSet as Extend<HighlightEvent>>::extend(events)
ExtendWithEvents ==
    /\ ~extended
    /\ iter_kind \in {"none", "events"}
    /\ highlight_set' = ExtendEvents(highlight_set, iter_items)
    /\ set_before' = highlight_set
    /\ iter_kind' = "events"
    /\ extended' = TRUE
    /\ UNCHANGED <<iter_items, pushed>>
    /\ UNCHANGED <<debug_assertions, phase, input, span_vars, flat_vars, tree_vars, pool_vars>>

----------------------------------------------------------------------------
\* TreeCursor over injection layers.  A tree_sitter::TreeCursor is on a node of
\* the subtree of the node it was created on or last reset to, and does not
\* leave that subtree: on that node goto_parent and goto_next_sibling return
\* false.

\* The children of node n in layer l, in sibling order.
ChildNodes(l, n) == {m \in 1..Len(layers[l].nodes) : layers[l].nodes[m] = n}

\* The smallest element of a non-empty set of node numbers.
MinNode(S) == CHOOSE m \in S : \A k \in S : m <= k

\* The siblings after node n in layer l.
LaterSiblings(l, n) == {m \in ChildNodes(l, layers[l].nodes[n]) : m > n}

\* InjectionLayer.children.get(&node_id): <<k>> when layer k is injected at
\* node n of layer l, <<>> for None.
ChildLayer(l, n) ==
    LET ks == {k \in 1..Len(layers) : layers[k].parent = <<l, n>>} IN
    IF ks = {} THEN <<>> ELSE <<MinNode(ks)>>

\* Width in bytes of node n of layer l: a leaf is one byte wide unless a layer
\* is injected at it, which it then spans; a node spans its children.
RECURSIVE NodeWidth(_, _)
NodeWidth(l, n) ==
    LET kids == ChildNodes(l, n)
        RECURSIVE Sum(_)
        Sum(S) == IF S = {} THEN 0
                  ELSE LET m == MinNode(S) IN NodeWidth(l, m) + Sum(S \ {m})
    IN  IF kids # {} THEN Sum(kids)
        ELSE IF ChildLayer(l, n) # <<>> THEN NodeWidth(ChildLayer(l, n)[1], 1)
        ELSE 1

\* First byte of node n of layer l: a root starts where its injection node
\* starts (the root of layer 1 at 0), a child after its earlier siblings.
RECURSIVE NodeStart(_, _)
NodeStart(l, n) ==
    IF n = 1
    THEN IF layers[l].parent = <<>> THEN 0
         ELSE NodeStart(layers[l].parent[1], layers[l].parent[2])
    ELSE LET p == layers[l].nodes[n]
             before == {m \in ChildNodes(l, p) : m < n}
             RECURSIVE Sum(_)
             Sum(S) == IF S = {} THEN 0
                       ELSE LET m == MinNode(S) IN NodeWidth(l, m) + Sum(S \ {m})
         IN  NodeStart(l, p) + Sum(before)

\* The byte ranges of the nodes of layer l, fixed when parsing is over.
NodeRanges(l) ==
    [n \in 1..Len(layers[l].nodes) |->
        [start |-> NodeStart(l, n), end |-> NodeStart(l, n) + NodeWidth(l, n)]]

\* Node::byte_range
ByteRange(l, n) == layers[l].ranges[n]

\* The number of nodes of the first k layers.
RECURSIVE NumNodes(_)
NumNodes(k) == IF k = 0 THEN 0 ELSE Len(layers[k].nodes) + NumNodes(k - 1)

\* A node is added to the parse tree of a layer, below a node at which no layer
\* is injected.
AddNode ==
    /\ tc_phase = "build"
    /\ NumNodes(Len(layers)) < TreeMaxNodes
    /\ \E l \in 1..Len(layers) :
           \E n \in 1..Len(layers[l].nodes) :
               /\ ChildLayer(l, n) = <<>>
               /\ layers' = [layers EXCEPT ![l].nodes = Append(@, n)]
    /\ UNCHANGED <<tc_phase, cursors, current, tc_last, tc_result, tc_panicked>>
    /\ UNCHANGED <<debug_assertions, phase, input, span_vars, flat_vars, set_vars, pool_vars>>

\* InjectionLayer::new(root, Some((layer, node))): a layer is injected at a
\* leaf of an existing layer.
AddLayer ==
    /\ tc_phase = "build"
    /\ NumNodes(Len(layers)) < TreeMaxNodes
    /\ \E l \in 1..Len(layers) :
           \E n \in 1..Len(layers[l].nodes) :
               /\ ChildNodes(l, n) = {}
               /\ ChildLayer(l, n) = <<>>
               /\ layers' = Append(layers, [nodes |-> <<0>>, parent |-> <<l, n>>,
                                            ranges |-> <<>>])
    /\ cursors' = Append(cursors, [node |-> 1, top |-> 1])
    /\ UNCHANGED <<tc_phase, current, tc_last, tc_result, tc_panicked>>
    /\ UNCHANGED <<debug_assertions, phase, input, span_vars, flat_vars, set_vars, pool_vars>>

\* Parsing is over and the TreeCursor is created: every layer's cursor is
\* root.walk() and the current layer is the root layer.
Walk ==
    /\ tc_phase = "build"
    /\ tc_phase' = "walk"
    /\ layers' = [l \in 1..Len(layers) |-> [layers[l] EXCEPT !.ranges = NodeRanges(l)]]
    /\ cursors' = [l \in 1..Len(layers) |-> [node |-> 1, top |-> 1]]
    /\ current' = 1
    /\ UNCHANGED <<tc_last, tc_result, tc_panicked>>
    /\ UNCHANGED <<debug_assertions, phase, input, span_vars, flat_vars, set_vars, pool_vars>>

\* TreeCursor::goto_first_child from layer cur with cursors cs: the layer, the
\* cursors and the value returned.
RECURSIVE FirstChildFrom(_, _)
FirstChildFrom(cur, cs) ==
    LET kids == ChildNodes(cur, cs[cur].node)
        child_layer == ChildLayer(cur, cs[cur].node)
    IN  IF kids # {}
        THEN [current |-> cur,
              cursors |-> [cs EXCEPT ![cur].node = MinNode(kids)],
              result |-> TRUE]
        ELSE IF child_layer # <<>>
        THEN FirstChildFrom(child_layer[1],
                            [cs EXCEPT ![child_layer[1]] = [node |-> 1, top |-> 1]])
        ELSE [current |-> cur, cursors |-> cs, result |-> FALSE]

\* TreeCursor::goto_next_sibling
NextSiblingFrom(cur, cs) ==
    LET n == cs[cur].node IN
    IF n # cs[cur].top /\ LaterSiblings(cur, n) # {}
    THEN [current |-> cur,
          cursors |-> [cs EXCEPT ![cur].node = MinNode(LaterSiblings(cur, n))],
          result |-> TRUE]
    ELSE [current |-> cur, cursors |-> cs, result |-> FALSE]

\* TreeCursor::goto_parent
RECURSIVE ParentFrom(_, _)
ParentFrom(cur, cs) ==
    IF cs[cur].node # cs[cur].top
    THEN [current |-> cur,
          cursors |-> [cs EXCEPT ![cur].node = layers[cur].nodes[cs[cur].node]],
          result |-> TRUE]
    ELSE IF cur = 1
    THEN [current |-> cur, cursors |-> cs, result |-> FALSE]
    ELSE IF layers[cur].parent # <<>>
    THEN LET parent_layer == layers[cur].parent[1]
             parent_node == layers[cur].parent[2]
         IN  ParentFrom(parent_layer,
                        [cs EXCEPT ![parent_layer] =
                            [node |-> parent_node, top |-> parent_node]])
    ELSE [current |-> cur, cursors |-> cs, result |-> FALSE]

\* The loop of TreeCursor::goto_byte_range; panicked for an unreachable!().
RECURSIVE ByteRangeLoop(_, _, _, _)
ByteRangeLoop(cur, cs, start, end) ==
    LET range == ByteRange(cur, cs[cur].node) IN
    IF range.start >= start /\ range.end <= end
    THEN [current |-> cur, cursors |-> cs, panicked |-> FALSE]
    ELSE IF range.end <= start
    THEN LET r == NextSiblingFrom(cur, cs) IN
         IF r.result THEN ByteRangeLoop(r.current, r.cursors, start, end)
         ELSE [current |-> r.current, cursors |-> r.cursors, panicked |-> TRUE]
    ELSE IF range.start <= start /\ range.end >= end
    THEN LET r == FirstChildFrom(cur, cs) IN
         IF r.result THEN ByteRangeLoop(r.current, r.cursors, start, end)
         ELSE [current |-> r.current, cursors |-> r.cursors, panicked |-> FALSE]
    ELSE [current |-> cur, cursors |-> cs, panicked |-> TRUE]

\* The TreeCursor exists and no call has panicked.
TreeCursorLive == tc_phase = "walk" /\ ~tc_panicked

GotoFirstChild ==
    /\ TreeCursorLive
    /\ LET r == FirstChildFrom(current, cursors) IN
        /\ current' = r.current
        /\ cursors' = r.cursors
        /\ tc_result' = r.result
    /\ tc_last' = "goto_first_child"
    /\ UNCHANGED <<tc_phase, layers, tc_panicked>>
    /\ UNCHANGED <<debug_assertions, phase, input, span_vars, flat_vars, set_vars, pool_vars>>

GotoNextSibling ==
    /\ TreeCursorLive
    /\ LET r == NextSiblingFrom(current, cursors) IN
        /\ current' = r.current
        /\ cursors' = r.cursors
        /\ tc_result' = r.result
    /\ tc_last' = "goto_next_sibling"
    /\ UNCHANGED <<tc_phase, layers, tc_panicked>>
    /\ UNCHANGED <<debug_assertions, phase, input, span_vars, flat_vars, set_vars, pool_vars>>

GotoParent ==
    /\ TreeCursorLive
    /\ LET r == ParentFrom(current, cursors) IN
        /\ current' = r.current
        /\ cursors' = r.cursors
        /\ tc_result' = r.result
    /\ tc_last' = "goto_parent"
    /\ UNCHANGED <<tc_phase, layers, tc_panicked>>
    /\ UNCHANGED <<debug_assertions, phase, input, span_vars, flat_vars, set_vars, pool_vars>>

\* TreeCursor::goto_byte_range(start, end), for start <= end inside the text.
GotoByteRange ==
    /\ TreeCursorLive
    /\ \E start, end \in 0..ByteRange(1, 1).end :
           /\ start <= end
           /\ LET r == ByteRangeLoop(1, [cursors EXCEPT ![1] = [node |-> 1, top |-> 1]],
                                     start, end)
              IN  /\ current' = r.current
                  /\ cursors' = r.cursors
                  /\ tc_panicked' = r.panicked
    /\ tc_last' = "goto_byte_range"
    /\ tc_result' = TRUE
    /\ UNCHANGED <<tc_phase, layers>>
    /\ UNCHANGED <<debug_assertions, phase, input, span_vars, flat_vars, set_vars, pool_vars>>

----------------------------------------------------------------------------

Init ==
    /\ debug_assertions = TRUE
    /\ phase = "input"
    /\ input = <<>>
    /\ spans = <<>>
    /\ index = 0
    /\ event_queue = <<>>
    /\ span_ends = <<>>
    /\ cursor = 0
    /\ out = <<>>
    /\ done = FALSE
    /\ panicked = FALSE
    /\ last = "new"
    /\ started = <<>>
    /\ flat_pos = 0
    /\ flat_inner = <<>>
    /\ flat_out = <<>>
    /\ flat_done = FALSE
    /\ highlight_set = <<>>
    /\ set_before = <<>>
    /\ iter_items = <<>>
    /\ iter_kind = "none"
    /\ extended = FALSE
    /\ pushed = 0
    /\ tc_phase = "build"
    /\ layers = <<[nodes |-> <<0>>, parent |-> <<>>, ranges |-> <<>>]>>
    /\ cursors = <<[node |-> 1, top |-> 1]>>
    /\ current = 1
    /\ tc_last = "new"
    /\ tc_result = TRUE
    /\ tc_panicked = FALSE
    /\ rp_pc = "submit"
    /\ n_jobs = 0
    /\ queued_count = 0
    /\ workers = [w \in 1..NumThreads |-> "idle"]
    /\ channel = 0
    /\ sum = 0
    /\ panic_count = 0
    /\ assert_ok = "none"

Next ==
    \/ PushSpan
    \/ SpanIterNew
    \/ NextQueued
    \/ NextDrain
    \/ NextNone
    \/ NextFinish
    \/ NextConnective
    \/ NextOpen
    \/ FlatSpanIterNew
    \/ FlatNext

Spec == Init /\ [][Next]_vars

\* The producer and span_iter alone: the caller builds a vector and drains the
\* iterator span_iter returns for it.
NextSpanIter ==
    \/ PushSpan
    \/ SpanIterNew
    \/ NextQueued
    \/ NextDrain
    \/ NextNone
    \/ NextFinish
    \/ NextConnective
    \/ NextOpen

SpecSpanIter == Init /\ [][NextSpanIter]_vars

\* Both iterators on vectors in any order, in a debug and in a release build.
InitAny ==
    /\ debug_assertions \in BOOLEAN
    /\ phase = "input"
    /\ input = <<>>
    /\ spans = <<>>
    /\ index = 0
    /\ event_queue = <<>>
    /\ span_ends = <<>>
    /\ cursor = 0
    /\ out = <<>>
    /\ done = FALSE
    /\ panicked = FALSE
    /\ last = "new"
    /\ started = <<>>
    /\ flat_pos = 0
    /\ flat_inner = <<>>
    /\ flat_out = <<>>
    /\ flat_done = FALSE
    /\ highlight_set = <<>>
    /\ set_before = <<>>
    /\ iter_items = <<>>
    /\ iter_kind = "none"
    /\ extended = FALSE
    /\ pushed = 0
    /\ tc_phase = "build"
    /\ layers = <<[nodes |-> <<0>>, parent |-> <<>>, ranges |-> <<>>]>>
    /\ cursors = <<[node |-> 1, top |-> 1]>>
    /\ current = 1
    /\ tc_last = "new"
    /\ tc_result = TRUE
    /\ tc_panicked = FALSE
    /\ rp_pc = "submit"
    /\ n_jobs = 0
    /\ queued_count = 0
    /\ workers = [w \in 1..NumThreads |-> "idle"]
    /\ channel = 0
    /\ sum = 0
    /\ panic_count = 0
    /\ assert_ok = "none"

NextAny ==
    \/ PushAnySpan
    \/ SpanIterNew
    \/ NextQueued
    \/ NextDrain
    \/ NextNone
    \/ NextFinish
    \/ NextConnective
    \/ NextOpen
    \/ FlatSpanIterNew
    \/ FlatNext

SpecAny == InitAny /\ [][NextAny]_vars

----------------------------------------------------------------------------
\* The vectors of the unit tests of span_iter, with the scopes and positions
\* of the tests, and the specification that runs the iterators on them.

test_non_overlapping_span_iter_events == <<Span(1, 0, 5), Span(2, 6, 10)>>

test_simple_overlapping_span_iter_events == <<Span(1, 0, 10), Span(2, 3, 6)>>

test_many_overlapping_span_iter_events ==
    <<Span(1, 0, 10), Span(2, 1, 5), Span(3, 6, 13), Span(4, 12, 15),
      Span(5, 13, 15)>>

test_multiple_duplicate_overlapping_span_iter_events ==
    <<Span(1, 0, 6), Span(2, 0, 6), Span(3, 4, 10), Span(4, 4, 10),
      Span(5, 4, 8)>>

test_span_iter_events_where_ranges_must_be_sorted ==
    <<Span(1, 0, 9), Span(2, 1, 5), Span(3, 6, 10), Span(4, 7, 8),
      Span(5, 8, 9)>>

empty_span_at_sublice_start ==
    <<Span(1, 0, 3), Span(2, 0, 2), Span(3, 1, 4), Span(4, 2, 3),
      Span(5, 2, 2)>>

TestInputs ==
    {test_non_overlapping_span_iter_events,
     test_simple_overlapping_span_iter_events,
     test_many_overlapping_span_iter_events,
     test_multiple_duplicate_overlapping_span_iter_events,
     test_span_iter_events_where_ranges_must_be_sorted,
     empty_span_at_sublice_start}

InitTests ==
    /\ debug_assertions = TRUE
    /\ phase = "input"
    /\ input \in TestInputs
    /\ spans = <<>>
    /\ index = 0
    /\ event_queue = <<>>
    /\ span_ends = <<>>
    /\ cursor = 0
    /\ out = <<>>
    /\ done = FALSE
    /\ panicked = FALSE
    /\ last = "new"
    /\ started = <<>>
    /\ flat_pos = 0
    /\ flat_inner = <<>>
    /\ flat_out = <<>>
    /\ flat_done = FALSE
    /\ highlight_set = <<>>
    /\ set_before = <<>>
    /\ iter_items = <<>>
    /\ iter_kind = "none"
    /\ extended = FALSE
    /\ pushed = 0
    /\ tc_phase = "build"
    /\ layers = <<[nodes |-> <<0>>, parent |-> <<>>, ranges |-> <<>>]>>
    /\ cursors = <<[node |-> 1, top |-> 1]>>
    /\ current = 1
    /\ tc_last = "new"
    /\ tc_result = TRUE
    /\ tc_panicked = FALSE
    /\ rp_pc = "submit"
    /\ n_jobs = 0
    /\ queued_count = 0
    /\ workers = [w \in 1..NumThreads |-> "idle"]
    /\ channel = 0
    /\ sum = 0
    /\ panic_count = 0
    /\ assert_ok = "none"

NextTests ==
    \/ SpanIterNew
    \/ NextQueued
    \/ NextDrain
    \/ NextNone
    \/ NextFinish
    \/ NextConnective
    \/ NextOpen
    \/ FlatSpanIterNew
    \/ FlatNext

SpecTests == InitTests /\ [][NextTests]_vars

----------------------------------------------------------------------------
\* The specification of a HighlightSet extended by its callers.

NextSet ==
    \/ PushSpanItem
    \/ PushEventItem
    \/ ExtendWithSpans
    \/ ExtendWithEvents

SpecSet == Init /\ [][NextSet]_vars

----------------------------------------------------------------------------
\* The specification of a TreeCursor moved by its callers.

NextTree ==
    \/ AddNode
    \/ AddLayer
    \/ Walk
    \/ GotoFirstChild
    \/ GotoNextSibling
    \/ GotoParent
    \/ GotoByteRange

SpecTree == Init /\ [][NextTree]_vars

----------------------------------------------------------------------------
\* run_parallel (helix-term/src/grammars.rs): the main thread submits one
\* closure per grammar to a thread pool, joins the pool and sums the progress
\* messages.  The pool and the channel behave as threadpool and std::sync::mpsc
\* document: a job is queued by execute and run once by some thread; a thread
\* is counted active from taking a job until the closure has returned or
\* panicked; join blocks until no job is queued and no thread is active; send
\* on an unbounded channel enqueues at once; try_iter yields the messages
\* present and stops at the first time it finds none.

\* The pool's active_count.
ActiveCount == Cardinality({w \in 1..NumThreads : workers[w] # "idle"})

\* for grammar in grammars { let tx = tx.clone(); n_jobs += 1; pool.execute(..) }
Execute ==
    /\ rp_pc = "submit"
    /\ n_jobs < MaxGrammars
    /\ n_jobs' = n_jobs + 1
    /\ queued_count' = queued_count + 1
    /\ UNCHANGED <<rp_pc, workers, channel, sum, panic_count, assert_ok>>
    /\ UNCHANGED <<debug_assertions, phase, input, span_vars, flat_vars, set_vars, tree_vars>>

\* The for loop has run out of grammars: pool.join() is called.
CallJoin ==
    /\ rp_pc = "submit"
    /\ rp_pc' = "join"
    /\ UNCHANGED <<n_jobs, queued_count, workers, channel, sum, panic_count, assert_ok>>
    /\ UNCHANGED <<debug_assertions, phase, input, span_vars, flat_vars, set_vars, tree_vars>>

\* A thread of the pool takes a queued job and enters the closure.
TakeJob(w) ==
    /\ workers[w] = "idle"
    /\ queued_count > 0
    /\ queued_count' = queued_count - 1
    /\ workers' = [workers EXCEPT ![w] = "job"]
    /\ UNCHANGED <<rp_pc, n_jobs, channel, sum, panic_count, assert_ok>>
    /\ UNCHANGED <<debug_assertions, phase, input, span_vars, flat_vars, set_vars, tree_vars>>

\* job(grammar) returns.
JobReturns(w) ==
    /\ workers[w] = "job"
    /\ workers' = [workers EXCEPT ![w] = "send"]
    /\ UNCHANGED <<rp_pc, n_jobs, queued_count, channel, sum, panic_count, assert_ok>>
    /\ UNCHANGED <<debug_assertions, phase, input, span_vars, flat_vars, set_vars, tree_vars>>

\* job(grammar) panics (fetch_grammar and build_grammar do, on a failing git or
\* compiler): the closure unwinds without sending and the pool counts the
\* panic and replaces the thread.
JobPanics(w) ==
    /\ workers[w] = "job"
    /\ workers' = [workers EXCEPT ![w] = "idle"]
    /\ panic_count' = panic_count + 1
    /\ UNCHANGED <<rp_pc, n_jobs, queued_count, channel, sum, assert_ok>>
    /\ UNCHANGED <<debug_assertions, phase, input, span_vars, flat_vars, set_vars, tree_vars>>

\* tx.send(1).unwrap(): rx is alive until run_parallel returns, so send succeeds.
Send(w) ==
    /\ workers[w] = "send"
    /\ channel' = channel + 1
    /\ workers' = [workers EXCEPT ![w] = "sent"]
    /\ UNCHANGED <<rp_pc, n_jobs, queued_count, sum, panic_count, assert_ok>>
    /\ UNCHANGED <<debug_assertions, phase, input, span_vars, flat_vars, set_vars, tree_vars>>

\* The closure returns and the thread is no longer active.
ClosureReturns(w) ==
    /\ workers[w] = "sent"
    /\ workers' = [workers EXCEPT ![w] = "idle"]
    /\ UNCHANGED <<rp_pc, n_jobs, queued_count, channel, sum, panic_count, assert_ok>>
    /\ UNCHANGED <<debug_assertions, phase, input, span_vars, flat_vars, set_vars, tree_vars>>

\* Variant of join that waits for the queue to empty but not for the threads.
JoinReturns_QueueOnly ==
    /\ rp_pc = "join"
    /\ queued_count = 0
    /\ rp_pc' = "read"
    /\ UNCHANGED <<n_jobs, queued_count, workers, channel, sum, panic_count, assert_ok>>
    /\ UNCHANGED <<debug_assertions, phase, input, span_vars, flat_vars, set_vars, tree_vars>>

\* pool.join() returns: no job is queued and no thread is active.
JoinReturns ==
    /\ rp_pc = "join"
    /\ queued_count = 0
    /\ ActiveCount = 0
    /\ rp_pc' = "read"
    /\ UNCHANGED <<n_jobs, queued_count, workers, channel, sum, panic_count, assert_ok>>
    /\ UNCHANGED <<debug_assertions, phase, input, span_vars, flat_vars, set_vars, tree_vars>>

\* rx.try_iter() yields a message and sum() adds it.
ReadMessage ==
    /\ rp_pc = "read"
    /\ channel > 0
    /\ channel' = channel - 1
    /\ sum' = sum + 1
    /\ UNCHANGED <<rp_pc, n_jobs, queued_count, workers, panic_count, assert_ok>>
    /\ UNCHANGED <<debug_assertions, phase, input, span_vars, flat_vars, set_vars, tree_vars>>

\* rx.try_iter() finds no message: sum() returns and assert_eq! compares.
AssertEq ==
    /\ rp_pc = "read"
    /\ channel = 0
    /\ rp_pc' = "done"
    /\ assert_ok' = IF sum = n_jobs THEN "ok" ELSE "failed"
    /\ UNCHANGED <<n_jobs, queued_count, workers, channel, sum, panic_count>>
    /\ UNCHANGED <<debug_assertions, phase, input, span_vars, flat_vars, set_vars, tree_vars>>

NextPool ==
    \/ Execute
    \/ CallJoin
    \/ \E w \in 1..NumThreads : TakeJob(w)
    \/ \E w \in 1..NumThreads : JobReturns(w)
    \/ \E w \in 1..NumThreads : JobPanics(w)
    \/ \E w \in 1..NumThreads : Send(w)
    \/ \E w \in 1..NumThreads : ClosureReturns(w)
    \/ JoinReturns
    \/ ReadMessage
    \/ AssertEq

SpecPool == Init /\ [][NextPool]_vars

----------------------------------------------------------------------------
\* Properties of the event stream of span_iter.  `out` is a prefix of the stream
\* in every state, and every prefix of the stream is `out` in the state reached
\* by the call that returned its last event; `done` holds once the stream ended.

NumStarts(events) == Cardinality({i \in 1..Len(events) : IsStart(events[i])})

NumEnds(events) == Cardinality({i \in 1..Len(events) : IsEnd(events[i])})

Sources(events) == SelectSeq(events, IsSource)

\* The spans (or span pieces) of the HighlightStarts of `events` that are still
\* open after `events`, innermost last.  The n-th HighlightStart of the stream
\* was queued by the n-th start_span call, whose argument is started[n].
RECURSIVE OpenPieces(_, _, _)
OpenPieces(events, n, stack) ==
    IF events = <<>> THEN stack
    ELSE IF IsStart(Head(events))
         THEN OpenPieces(Tail(events), n + 1, Append(stack, started[n + 1]))
    ELSE IF IsEnd(Head(events))
         THEN OpenPieces(Tail(events), n,
                         IF stack = <<>> THEN stack ELSE Front(stack))
    ELSE OpenPieces(Tail(events), n, stack)

\* C1: when the stream of span_iter(V) has ended, the HighlightSet collected
\* from V equals the HighlightSet collected from the stream.
C1_SemanticPreservation ==
    done => FromSpans(input) = FromEvents(out)

\* C2: whenever a HighlightEnd is returned with the cursor at k, the innermost
\* HighlightStart still open before it was queued for a span or span piece
\* whose end is k.
C2_LifoNesting ==
    (out # <<>> /\ IsEnd(Last(out))) =>
        LET open == OpenPieces(Front(out), 0, <<>>) IN
        open # <<>> /\ Last(open).end = cursor

\* C3: at every prefix of the stream there are at least as many HighlightStarts
\* as HighlightEnds, and over the whole stream their numbers are equal.
C3_BalancedEvents ==
    /\ NumStarts(out) >= NumEnds(out)
    /\ done => NumStarts(out) = NumEnds(out)

\* The stream of a full vector has ended and some span was opened twice.
C3_Witness ==
    /\ done
    /\ Len(input) = MaxSpans
    /\ NumStarts(out) > Len(input)
    /\ NumEnds(out) = NumStarts(out)

\* C4: every Source returned by span_iter has start < end.
C4_NoZeroWidthSource ==
    \A i \in 1..Len(out) : IsSource(out[i]) => out[i].start < out[i].end

\* The stream has ended with two Sources for a vector that holds a zero-width
\* span that is neither its first nor its last span.
C4_Witness ==
    /\ done
    /\ \E i \in 2..(Len(input) - 1) : input[i].start = input[i].end
    /\ Len(Sources(out)) >= 2

\* C5: no two Sources are adjacent in the stream, and successive Sources
\* {a,b} then {c,d} have a < c and b <= c.
C5_SourceOrdering ==
    /\ \A i \in 1..(Len(out) - 1) : ~(IsSource(out[i]) /\ IsSource(out[i + 1]))
    /\ LET src == Sources(out) IN
       \A i \in 1..(Len(src) - 1) :
           src[i].start < src[i + 1].start /\ src[i].end <= src[i + 1].start

\* The stream has ended with three Sources, the last two meeting end to start.
C5_Witness ==
    /\ done
    /\ LET src == Sources(out) IN
       /\ Len(src) >= 3
       /\ src[Len(src) - 1].end = src[Len(src)].start

\* C6: after a next() call that partitioned spans, the part of the vector not
\* yet opened (from index on) is sorted by start ascending, end descending.
C6_ResortedAfterPartition ==
    last = "partition" => SpanIterPre(SubSeq(spans, index + 1, Len(spans)))

\* A next() call that partitions: the call reaches "start any new spans" with
\* the next span s = spans[index] crossing the earliest open end e.
PartitionStep ==
    /\ phase = "span_iter"
    /\ started' # started
    /\ last' = "partition"

\* The not-yet-opened spans, the earliest open end and the next span before a
\* call, and the spans opened by the call.
Unopened == {spans[k] : k \in (index + 1)..Len(spans)}

UnopenedAfter == {spans'[k] : k \in (index' + 1)..Len(spans')}

SameStart == {x \in Unopened : x.start = spans[index + 1].start}

OpenedByCall == {started'[k] : k \in (Len(started) + 1)..Len(started')}

\* What a call that splits exactly the spans of `split` at e does: it opens the
\* left piece of each span of `split` and every other span sharing s.start
\* whole, each once, and leaves the right halves with the later spans.
SplitsExactly(split, e) ==
    /\ OpenedByCall = {[x EXCEPT !.end = e] : x \in split} \cup (SameStart \ split)
    /\ Len(started') - Len(started) = Cardinality(SameStart)
    /\ UnopenedAfter = {[x EXCEPT !.start = e] : x \in split} \cup (Unopened \ SameStart)
    /\ Len(spans') - index' = Cardinality(UnopenedAfter)

\* C7 as stated: the split spans are the unopened spans sharing s.start with
\* end > e; the spans sharing s.start with end <= e are opened whole.
C7_PartitionScope ==
    [][PartitionStep =>
        LET e == Last(span_ends) IN
        /\ spans[index + 1].start < e /\ e < spans[index + 1].end
        /\ SplitsExactly({x \in SameStart : x.end > e}, e)]_vars

\* The spans that follow spans[index] consecutively (spans[index] included),
\* share its start and end at or after e.
RunFrom(e) ==
    LET s == spans[index + 1]
        reaches(k) == spans[k].start = s.start /\ spans[k].end >= e
        n == CHOOSE m \in 0..(Len(spans) - index) :
                 /\ \A k \in (index + 1)..(index + m) : reaches(k)
                 /\ index + m < Len(spans) => ~reaches(index + m + 1)
    IN  {spans[k] : k \in (index + 1)..(index + n)}

\* C7 amended: the split spans are s and the spans following it consecutively
\* that share s.start and have end >= e (a span ending at e leaves the
\* zero-width right half (scope, e, e)); the other spans sharing s.start are
\* opened whole, once.
C7_PartitionScopeAmended ==
    [][PartitionStep =>
        LET e == Last(span_ends) IN
        /\ spans[index + 1].start < e /\ e < spans[index + 1].end
        /\ SplitsExactly(RunFrom(e), e)]_vars

\* A call has just partitioned; it left a zero-width right half of a span that
\* ended at e and opened a shorter span sharing the start whole.
C7_Witness ==
    /\ last = "partition"
    /\ index > 0
    /\ spans[index] = Last(started)
    /\ \E k \in (index + 1)..Len(spans) :
        /\ spans[k].start = spans[k].end
        /\ input[spans[k].scope + 1].start < input[spans[k].scope + 1].end
        /\ Last(started).start < Last(started).end
        /\ Last(started).end < spans[k].start

----------------------------------------------------------------------------
\* Properties of the event stream of flat_span_iter.  `flat_out` is a prefix of
\* the stream in every state; `flat_done` holds once the stream ended.

\* The stream C8 describes: Start, Source, End for each span with start # end,
\* in input order.
RECURSIVE TriplePerSpan(_)
TriplePerSpan(v) ==
    IF v = <<>> THEN <<>>
    ELSE (IF Head(v).start # Head(v).end
          THEN <<HighlightStart(Head(v).scope),
                 Source(Head(v).start, Head(v).end),
                 HighlightEnd>>
          ELSE <<>>) \o TriplePerSpan(Tail(v))

NonEmptySpans(v) == {i \in 1..Len(v) : v[i].start # v[i].end}

IsPrefix(p, q) == Len(p) <= Len(q) /\ p = SubSeq(q, 1, Len(p))

\* C8: flat_span_iter returns, for each span with start # end and in input
\* order, Start(scope), Source{start,end}, End, and nothing for a span with
\* start = end; the stream has three events per non-empty span.
C8_FlatTriples ==
    phase = "flat_span_iter" =>
        /\ IsPrefix(flat_out, TriplePerSpan(input))
        /\ flat_done =>
            /\ flat_out = TriplePerSpan(input)
            /\ Len(flat_out) = 3 * Cardinality(NonEmptySpans(input))

\* The flat stream has ended for a full vector with a zero-width span between
\* two non-empty ones.
C8_Witness ==
    /\ flat_done
    /\ Len(input) = MaxSpans
    /\ \E i \in 2..(Len(input) - 1) :
        /\ input[i].start = input[i].end
        /\ input[i - 1].start # input[i - 1].end
        /\ input[i + 1].start # input[i + 1].end
    /\ Len(flat_out) >= 6

\* C9: for a vector that is sorted by (start asc, end desc) and non-overlapping,
\* the streams of span_iter and flat_span_iter collect to equal HighlightSets.
C9_FlatPathEquivalence ==
    (SpanIterPre(input) /\ FlatSpanIterPre(input) /\ done /\ flat_done) =>
        FromEvents(out) = FromEvents(flat_out)

\* Both streams have ended for a full vector with a zero-width span and two
\* non-empty spans that touch.
C9_Witness ==
    /\ done
    /\ flat_done
    /\ Len(input) = MaxSpans
    /\ FromEvents(flat_out) # <<>>
    /\ \E i \in 1..Len(input) : input[i].start = input[i].end
    /\ \E i \in 1..(Len(input) - 1) :
        /\ input[i].start < input[i].end
        /\ input[i].end = input[i + 1].start
        /\ input[i + 1].start < input[i + 1].end

\* C10: for every vector that passes the precondition of flat_span_iter the
\* stream is well-formed: Starts >= Ends at every prefix and equal at the end,
\* every Source has start < end, no two Sources are adjacent, and successive
\* Sources {a,b} then {c,d} have a < c and b <= c.
C10_FlatWellFormed ==
    phase = "flat_span_iter" =>
        /\ NumStarts(flat_out) >= NumEnds(flat_out)
        /\ flat_done => NumStarts(flat_out) = NumEnds(flat_out)
        /\ \A i \in 1..Len(flat_out) :
               IsSource(flat_out[i]) => flat_out[i].start < flat_out[i].end
        /\ \A i \in 1..(Len(flat_out) - 1) :
               ~(IsSource(flat_out[i]) /\ IsSource(flat_out[i + 1]))
        /\ LET src == Sources(flat_out) IN
           \A i \in 1..(Len(src) - 1) :
               src[i].start < src[i + 1].start /\ src[i].end <= src[i + 1].start

\* The flat stream has ended, with Sources that touch, for a vector that
\* span_iter does not accept (a zero-width span in front of a span with the
\* same start).
C10_Witness ==
    /\ flat_done
    /\ ~SpanIterPre(input)
    /\ LET src == Sources(flat_out) IN
       /\ Len(src) >= 2
       /\ \E i \in 1..(Len(src) - 1) : src[i].end = src[i + 1].start

\* C11: for the empty vector neither constructor fails its assertion, neither
\* stream ever holds an event, and the first request on either iterator can
\* be made and returns None (span_iter's by the branch for "no more spans").
C11_EmptyInput ==
    input = <<>> =>
        /\ SpanIterPre(input) /\ FlatSpanIterPre(input)
        /\ ~panicked
        /\ out = <<>> /\ flat_out = <<>>
        /\ phase = "span_iter" =>
               /\ ~done => ENABLED NextNone
               /\ last # "new" => done /\ last = "none"
        /\ phase = "flat_span_iter" =>
               /\ ~flat_done => ENABLED FlatNext
               /\ flat_pos = 0 /\ flat_inner = <<>>

\* Both iterators were built on the empty vector and both returned None.
C11_Witness ==
    /\ input = <<>>
    /\ phase = "flat_span_iter"
    /\ done /\ last = "none"
    /\ flat_done
    /\ out = <<>> /\ flat_out = <<>>

\* The position of the first HighlightEnd at or after position m of `events`
\* that is read at nesting depth `depth` = 0 (a Start adds one to the depth, an
\* End at a positive depth takes one off), or 0 when there is none.
RECURSIVE ScanEnd(_, _, _)
ScanEnd(events, m, depth) ==
    IF m > Len(events) THEN 0
    ELSE IF IsStart(events[m]) THEN ScanEnd(events, m + 1, depth + 1)
    ELSE IF IsEnd(events[m])
         THEN IF depth = 0 THEN m ELSE ScanEnd(events, m + 1, depth - 1)
    ELSE ScanEnd(events, m + 1, depth)

\* The position of the HighlightEnd that closes the HighlightStart at position
\* i of `events` under LIFO matching, or 0 when it is still open.
MatchingEnd(events, i) == ScanEnd(events, i + 1, 0)

\* C12: when the stream of span_iter has stopped (next() returned None, or an
\* assertion failed), then for every zero-width span of the vector no Source
\* follows a HighlightStart of its scope before the HighlightEnd that closes it
\* (LIFO); and when it ended with None the stream holds such a Start and the
\* End that closes it.
C12_ZeroWidthPreserved ==
    phase = "span_iter" /\ (done \/ panicked) =>
        \A k \in 1..Len(input) :
            input[k].start = input[k].end =>
                LET opens == {i \in 1..Len(out) :
                                 out[i] = HighlightStart(input[k].scope)}
                IN /\ done => opens # {}
                   /\ \A i \in opens :
                          LET m == MatchingEnd(out, i) IN
                          /\ done => m # 0
                          /\ \A n \in i..(IF m = 0 THEN Len(out) ELSE m) :
                                 ~IsSource(out[n])

\* The stream has ended for a vector with a zero-width span strictly inside a
\* wider span that is split, so Sources were returned before and after the
\* zero-width span was opened and closed.
C12_Witness ==
    /\ phase = "span_iter"
    /\ done
    /\ Len(started) > Len(input)
    /\ \E k \in 1..Len(input) :
        /\ input[k].start = input[k].end
        /\ \E j \in 1..Len(input) :
               input[j].start < input[k].start /\ input[k].end < input[j].end
        /\ \E i \in 1..Len(out) :
               /\ out[i] = HighlightStart(input[k].scope)
               /\ \E a \in 1..(i - 1) : IsSource(out[a])
               /\ \E b \in (i + 1)..Len(out) : IsSource(out[b])

\* Spans k and k + 1 of v are duplicates: adjacent with identical start and end.
Duplicates(v, k) ==
    /\ k \in 1..(Len(v) - 1)
    /\ v[k].start = v[k + 1].start
    /\ v[k].end = v[k + 1].end

\* C13: when the stream of span_iter has stopped (next() returned None, or an
\* assertion failed), then for adjacent duplicates a, b of the vector every
\* HighlightStart of a is directly followed by a HighlightStart of b and every
\* HighlightStart of b directly follows one of a (also for the pieces they are
\* split into); when it ended with None, a was started and both Starts are
\* closed under LIFO matching, b's inside a's.
C13_DuplicatesNested ==
    phase = "span_iter" /\ (done \/ panicked) =>
        \A k \in 1..(Len(input) - 1) :
            Duplicates(input, k) =>
                LET a == HighlightStart(input[k].scope)
                    b == HighlightStart(input[k + 1].scope)
                IN /\ done => \E i \in 1..Len(out) : out[i] = a
                   /\ \A i \in 1..Len(out) :
                          /\ out[i] = a /\ i < Len(out) => out[i + 1] = b
                          /\ out[i] = a /\ done => i < Len(out)
                          /\ out[i] = b => i > 1 /\ out[i - 1] = a
                          /\ out[i] = a /\ done =>
                                 /\ MatchingEnd(out, i + 1) # 0
                                 /\ MatchingEnd(out, i) >
                                        MatchingEnd(out, i + 1)

\* The stream has ended for a vector with adjacent duplicates that were split
\* and opened again, behind a span that starts before them.
C13_Witness ==
    /\ phase = "span_iter"
    /\ done
    /\ \E k \in 1..(Len(input) - 1) :
        /\ Duplicates(input, k)
        /\ input[k].start < input[k].end
        /\ Cardinality({i \in 1..Len(out) :
                            out[i] = HighlightStart(input[k].scope)}) >= 2
        /\ Cardinality({i \in 1..Len(out) :
                            out[i] = HighlightStart(input[k + 1].scope)}) >= 2

\* The last n elements of a sequence.
LastN(s, n) == SubSeq(s, Len(s) - n + 1, Len(s))

\* C14 as stated: the stream of span_iter for the vector of
\* test_many_overlapping_span_iter_events has exactly 22 events, the last five
\* being Start(5), Start(4), Source{13,15}, End, End.
C14_ManyOverlapping22 ==
    done /\ input = test_many_overlapping_span_iter_events =>
        /\ Len(out) = 22
        /\ LastN(out, 5) = <<HighlightStart(5), HighlightStart(4),
                             Source(13, 15), HighlightEnd, HighlightEnd>>

\* C14 amended: the stream has exactly 21 events, the last five being
\* Start(5), Start(4), Source{13,15}, End, End.
C14_ManyOverlapping21 ==
    done /\ input = test_many_overlapping_span_iter_events =>
        /\ Len(out) = 21
        /\ LastN(out, 5) = <<HighlightStart(5), HighlightStart(4),
                             Source(13, 15), HighlightEnd, HighlightEnd>>

\* The stream for the vector of test_many_overlapping_span_iter_events has
\* ended, after spans 3 and 4 were split.
C14_Witness ==
    /\ done
    /\ input = test_many_overlapping_span_iter_events
    /\ Len(started) = Len(input) + 2
    /\ out # <<>>

\* C15: the stream of span_iter for the vector of empty_span_at_sublice_start
\* is exactly the 20 events listed; the zero-width span 5 is opened and closed
\* between Source{1,2} and Source{2,3}.
C15_EmptySpanAtSubsliceStart ==
    done /\ input = empty_span_at_sublice_start =>
        out = <<HighlightStart(1), HighlightStart(2), Source(0, 1),
                HighlightStart(3), Source(1, 2), HighlightEnd, HighlightEnd,
                HighlightStart(3), HighlightStart(4), HighlightStart(5),
                HighlightEnd, Source(2, 3), HighlightEnd, HighlightEnd,
                HighlightEnd, HighlightStart(3), HighlightStart(4),
                HighlightEnd, Source(3, 4), HighlightEnd>>

\* The stream for the vector of empty_span_at_sublice_start has ended, and
\* span 5 was started with the cursor at 2.
C15_Witness ==
    /\ done
    /\ input = empty_span_at_sublice_start
    /\ \E n \in 1..Len(started) : started[n] = Span(5, 2, 2)
    /\ Len(out) = 20

\* C16: for all spans a, b, c of a vector the producer built: cmp(a, b) is
\* Less exactly when a starts before b or they start together and a ends
\* after b, Equal exactly when start and end are equal, and the reverse of
\* cmp(b, a); it is the same when a and b carry each other's scope; and <= is
\* reflexive, total and transitive.
C16_SpanOrdering ==
    phase = "input" =>
        /\ \A i, j \in 1..Len(input) :
               LET a == input[i]
                   b == input[j]
                   o == SpanCmp(a, b)
               IN /\ o \in {"Less", "Equal", "Greater"}
                  /\ o = "Less" <=>
                         \/ a.start < b.start
                         \/ a.start = b.start /\ a.end > b.end
                  /\ o = "Equal" <=> a.start = b.start /\ a.end = b.end
                  /\ o = Reverse(SpanCmp(b, a))
                  /\ o = SpanCmp(Span(b.scope, a.start, a.end),
                                 Span(a.scope, b.start, b.end))
                  /\ SpanLe(a, a)
                  /\ SpanLe(a, b) \/ SpanLe(b, a)
        /\ \A i, j, k \in 1..Len(input) :
               SpanLe(input[i], input[j]) /\ SpanLe(input[j], input[k])
                   => SpanLe(input[i], input[k])

\* A vector with two spans of different scopes that compare Equal, a span
\* that starts with them and ends earlier (Greater by the end alone), and a
\* later span that is wider than that one (Greater by the start alone).
C16_Witness ==
    /\ phase = "input"
    /\ \E i, j, k, l \in 1..Len(input) :
        /\ i # j
        /\ SpanCmp(input[i], input[j]) = "Equal"
        /\ input[k].start = input[i].start /\ input[k].end < input[i].end
        /\ SpanCmp(input[k], input[i]) = "Greater"
        /\ input[l].start > input[k].start
        /\ input[l].end - input[l].start > input[k].end - input[k].start
        /\ SpanCmp(input[l], input[k]) = "Greater"

----------------------------------------------------------------------------
\* Properties of HighlightSet.

\* The scopes a HighlightSet holds at byte position p (none past its length).
ScopesAt(set, p) == IF p < Len(set) THEN set[p + 1] ELSE {}

\* A sequence in reverse order.
ReverseSeq(s) == [k \in 1..Len(s) |-> s[Len(s) + 1 - k]]

\* C17: after a set is extended with an iterator of spans, it holds scope k
\* at position p exactly when it held k at p before (never, for the empty set)
\* or a span of the iterator has scope k and start <= p < end; it holds
\* nothing past the last position; and it is the set that the spans give in
\* reverse order and rotated by one.
C17_SetFromSpans ==
    extended /\ iter_kind = "spans" =>
        /\ Len(highlight_set) <= SetMaxPos
        /\ \A p \in 0..SetMaxPos :
               ScopesAt(highlight_set, p) =
                   ScopesAt(set_before, p) \cup
                   {iter_items[i].scope : i \in {n \in 1..Len(iter_items) :
                       iter_items[n].start <= p /\ p < iter_items[n].end}}
        /\ ExtendSpans(set_before, ReverseSeq(iter_items)) = highlight_set
        /\ iter_items # <<>> =>
               ExtendSpans(set_before,
                           Append(Tail(iter_items), Head(iter_items)))
                   = highlight_set

\* The empty set was extended with MaxItems spans not in sorted order, two of
\* them with different scopes at one position and a zero-width one past the
\* last position of the result.
C17_Witness ==
    /\ extended
    /\ iter_kind = "spans"
    /\ set_before = <<>>
    /\ Len(iter_items) = MaxItems
    /\ ~SpanIterPre(iter_items)
    /\ \E p \in 1..Len(highlight_set) : Cardinality(highlight_set[p]) >= 2
    /\ \E i \in 1..Len(iter_items) :
           /\ iter_items[i].start = iter_items[i].end
           /\ iter_items[i].end > Len(highlight_set)

\* The scopes on the stack when event i of `events` is read: those of the
\* HighlightStarts before i that no HighlightEnd before i has closed.
OnStack(events, i) ==
    {events[j].scope : j \in {n \in 1..(i - 1) :
        /\ IsStart(events[n])
        /\ MatchingEnd(events, n) \notin 1..(i - 1)}}

\* The scopes the Sources of `events` give position p.
SourceScopes(events, p) ==
    UNION {OnStack(events, i) : i \in {n \in 1..Len(events) :
        /\ IsSource(events[n])
        /\ events[n].start <= p /\ p < events[n].end}}

\* A sequence without its i-th element.
RemoveAt(s, i) == SubSeq(s, 1, i - 1) \o SubSeq(s, i + 1, Len(s))

BuiltSets ==
    {highlight_set, set_before,
     IF iter_kind = "events" THEN FromEvents(iter_items)
     ELSE FromSpans(iter_items)}

\* C19: every set built by extends is empty or holds a scope at its last
\* position, and two such sets are equal exactly when they hold the same
\* scopes at every position.
C19_Trimmed ==
    LET built == BuiltSets IN
    /\ \A x \in built : x = <<>> \/ x[Len(x)] # {}
    /\ \A x, y \in built :
           x = y <=> \A p \in 0..SetMaxPos : ScopesAt(x, p) = ScopesAt(y, p)

\* A non-empty set was extended a second time, with an iterator whose last
\* item lies past every scope of the result (the extend resized the set and
\* trim popped the empty masks), and the three built sets differ.
C19_Witness ==
    /\ extended
    /\ set_before # <<>>
    /\ highlight_set # set_before
    /\ iter_items # <<>>
    /\ iter_items[Len(iter_items)].end > Len(highlight_set)
    /\ Cardinality(BuiltSets) = 3

\* `events` with the matched pairs of the HighlightStarts at i and j exchanged.
\* A HighlightEnd carries no scope, so the pair that takes a bracket's place is
\* told by the scope of its Start alone, and the brackets stay LIFO.
ExchangePairs(events, i, j) ==
    [events EXCEPT ![i].scope = events[j].scope, ![j].scope = events[i].scope]

\* The Sources between the HighlightStart at i and the HighlightEnd closing it.
Enclosed(events, i) ==
    LET m == MatchingEnd(events, i) IN
    {n \in i..(IF m = 0 THEN Len(events) ELSE m) : IsSource(events[n])}

\* The positions of the HighlightStarts of `events`.
StartPositions(events) == {i \in 1..Len(events) : IsStart(events[i])}

\* C20 as stated: for the finished stream of span_iter, exchanging any two
\* matched Start/End pairs leaves the collected HighlightSet unchanged.
C20_AnyExchange ==
    done /\ phase = "span_iter" =>
        \A i, j \in StartPositions(out) :
            FromEvents(ExchangePairs(out, i, j)) = FromEvents(out)

\* C20 amended: exchanging two matched Start/End pairs that enclose the same
\* Sources leaves the collected HighlightSet unchanged.
C20_ExchangeSameSources ==
    done /\ phase = "span_iter" =>
        LET set == FromEvents(out)
            starts == StartPositions(out)
            enclosed == [i \in starts |-> Enclosed(out, i)]
        IN \A i, j \in starts :
               i < j /\ enclosed[i] = enclosed[j] =>
                   FromEvents(ExchangePairs(out, i, j)) = set

\* A finished stream with two adjacent Starts of different scopes whose Ends
\* are adjacent and enclose a Source, inside a third pair that encloses more.
C20_Witness ==
    /\ done
    /\ phase = "span_iter"
    /\ \E i \in StartPositions(out) :
        /\ i + 1 \in StartPositions(out)
        /\ out[i].scope # out[i + 1].scope
        /\ MatchingEnd(out, i) = MatchingEnd(out, i + 1) + 1
        /\ Enclosed(out, i) # {}
        /\ ExchangePairs(out, i, i + 1) # out
        /\ \E h \in StartPositions(out) :
               /\ h < i
               /\ Enclosed(out, i) \subseteq Enclosed(out, h)
               /\ Enclosed(out, i) # Enclosed(out, h)

----------------------------------------------------------------------------
\* Properties of the builds: what panics and what does not.

\* C22: in a release build, for every vector in any order, no call of
\* SpanIter::next panics (no slice range leaves the vector, no rotation exceeds
\* its slice), the index read by spans[index] is inside the vector whenever it
\* differs from the length, and the vector keeps its length.
C22_NoOutOfBounds ==
    ~debug_assertions /\ phase = "span_iter" =>
        /\ ~panicked
        /\ index <= Len(spans)
        /\ Len(spans) = Len(input)

\* A release build partitioned the spans of a vector that is not sorted and
\* rotated them: a span is no longer at the place it had in the input.
C22_Witness ==
    /\ ~debug_assertions
    /\ phase = "span_iter"
    /\ ~SpanIterPre(input)
    /\ last = "partition"
    /\ \E k \in 1..Len(spans) : spans[k].scope # input[k].scope

\* The ranges of two spans of v share a byte.
Overlap(v) ==
    \E i, j \in 1..Len(v) :
        /\ i < j
        /\ \E p \in v[i].start..(v[i].end - 1) : v[j].start <= p /\ p < v[j].end

\* v is sorted by start ascending, then by end descending.
SortedStartAscEndDesc(v) ==
    \A i \in 1..(Len(v) - 1) :
        \/ v[i].start < v[i + 1].start
        \/ v[i].start = v[i + 1].start /\ v[i].end >= v[i + 1].end

\* span_iter has been called in a debug build and nothing else since.
SpanIterCalled == debug_assertions /\ phase \in {"span_iter", "span_iter_panic"}

SortedByStart(v) == \A i \in 1..(Len(v) - 1) : v[i].start <= v[i + 1].start

\* flat_span_iter has been called in a debug build.
FlatSpanIterCalled ==
    debug_assertions /\ phase \in {"flat_span_iter", "flat_span_iter_panic"}

\* C24: in a debug build flat_span_iter panics on every vector (start <= end in
\* each span) in which two spans overlap or that is not sorted by start, and
\* builds the iterator on every vector in which each span starts at or after
\* the end of the span before it.
C24_FlatPrecondition ==
    FlatSpanIterCalled =>
        /\ Overlap(input) \/ ~SortedByStart(input) => phase = "flat_span_iter_panic"
        /\ (\A i \in 1..(Len(input) - 1) : input[i + 1].start >= input[i].end)
               => phase = "flat_span_iter"

\* flat_span_iter panicked on a vector of overlapping spans in sorted order, on
\* which span_iter had run to its end.
C24_Witness ==
    /\ FlatSpanIterCalled
    /\ phase = "flat_span_iter_panic"
    /\ done
    /\ Overlap(input)
    /\ SortedByStart(input)

\* C26: on a sorted vector no debug_assert! of SpanIter fails in any call: every
\* span or piece opened has start <= end, a Source built when closing a scope
\* runs from the cursor to a later end, a connective Source runs from the
\* cursor to a later start; the cursor never decreases and never exceeds an
\* open end.
C26_NoAssertionFails ==
    [][debug_assertions /\ phase' = "span_iter" =>
          /\ ~panicked'
          /\ cursor <= cursor'
          /\ \A k \in 1..Len(span_ends') : cursor' <= span_ends'[k]
          /\ \A k \in (Len(started) + 1)..Len(started') :
                 started'[k].start <= started'[k].end
          /\ last' \in {"drain", "finish", "connective"} /\ IsSource(Last(out')) =>
                 /\ Last(out') = Source(cursor, cursor')
                 /\ cursor < cursor']_vars

\* A call partitioned spans after a connective Source and after a scope was
\* closed by a Source, and no assertion has failed.
C26_Witness ==
    /\ debug_assertions
    /\ phase = "span_iter"
    /\ ~panicked
    /\ last = "partition"
    /\ cursor > 0
    /\ Len(Sources(out)) >= 2
    /\ NumEnds(out) >= 1

\* A sequence of offsets in descending (non-increasing) order.
IsDescending(s) == \A k \in 1..(Len(s) - 1) : s[k] >= s[k + 1]

\* C27: between the calls of next() span_ends is in descending order, so its
\* last element is the smallest open end; a call that closes a scope pops
\* that element and moves the cursor to it.
C27_OpenEndsDescending ==
    [][phase' = "span_iter" =>
          /\ IsDescending(span_ends')
          /\ \A k \in 1..Len(span_ends') : Last(span_ends') <= span_ends'[k]
          /\ last' \in {"drain", "finish"} /\ Len(out') > Len(out) /\ event_queue = <<>> =>
                 /\ span_ends' = Front(span_ends)
                 /\ cursor' = Last(span_ends)
                 /\ \A k \in 1..Len(span_ends) : Last(span_ends) <= span_ends[k]]_vars

\* A call popped the smallest of at least three open ends, not all equal.
C27_Witness ==
    /\ phase = "span_iter"
    /\ last \in {"drain", "finish"}
    /\ Len(span_ends) >= 2
    /\ span_ends[1] > Last(span_ends)
    /\ cursor < Last(span_ends)

\* The byte position of every event of a stream whose k-th HighlightStart
\* opens the span or piece st[k]: a Source ends at its position, a
\* HighlightStart is at the start of what it opens, a HighlightEnd is where
\* the event before it is.
EventPositions(events, st) ==
    LET pos[i \in 0..Len(events)] ==
            IF i = 0 THEN 0
            ELSE IF IsSource(events[i]) THEN events[i].end
            ELSE IF IsStart(events[i])
                 THEN st[NumStarts(SubSeq(events, 1, i))].start
            ELSE pos[i - 1]
    IN  pos

\* C28: in the finished stream, before the HighlightStart of a span or piece
\* beginning at p every span or piece opened at an earlier position and
\* ending at or before p has had its HighlightEnd (for each offset e <= p
\* there are at least as many HighlightEnds at e as such pieces ending at e),
\* and the positions of the HighlightEnds never decrease along the stream.
C28_FinishedScopesCloseFirst ==
    phase = "span_iter" /\ done =>
        LET pos == EventPositions(out, started)
            ends == {i \in 1..Len(out) : IsEnd(out[i])}
        IN  /\ \A i, j \in ends : i < j => pos[i] <= pos[j]
            /\ \A i \in StartPositions(out) :
                   LET k == NumStarts(SubSeq(out, 1, i))
                       p == started[k].start
                   IN  \A e \in 0..p :
                           Cardinality({m \in ends : m < i /\ pos[m] = e}) >=
                           Cardinality({j \in 1..(k - 1) :
                               started[j].start < p /\ started[j].end = e})

\* The stream of a vector ended in which two scopes with different ends were
\* closed before a later span was started at the later of the two ends.
C28_Witness ==
    /\ phase = "span_iter"
    /\ done
    /\ \E k \in 3..Len(started) :
           \E i, j \in 1..(k - 1) :
               /\ started[i].end < started[j].end
               /\ started[i].start < started[i].end
               /\ started[j].end = started[k].start
               /\ started[k].start < started[k].end

\* The byte positions inside the ranges of a sequence of spans or of the
\* Sources of a sequence of events.
Covered(items) ==
    UNION {items[i].start..(items[i].end - 1) : i \in 1..Len(items)}

\* C29: in the finished stream every Source is read while a scope is open (more
\* HighlightStarts than HighlightEnds before it), and the positions the
\* Sources cover are exactly those the input spans cover: nothing is emitted
\* for a gap between spans.
C29_SourcesOnlyInsideScopes ==
    phase = "span_iter" /\ done =>
        /\ \A i \in 1..Len(out) :
               IsSource(out[i]) =>
                   NumStarts(SubSeq(out, 1, i)) > NumEnds(SubSeq(out, 1, i))
        /\ Covered(Sources(out)) = Covered(input)

\* The stream of a vector ended that leaves a gap between two non-empty spans
\* and has two overlapping spans.
C29_Witness ==
    /\ phase = "span_iter"
    /\ done
    /\ \E g \in 0..MaxPos :
           /\ g \notin Covered(input)
           /\ \E p, q \in Covered(input) : p < g /\ g < q
    /\ Overlap(input)
    /\ Covered(Sources(out)) # {}

\* C30: a scope whose end equals the cursor is closed by a HighlightEnd alone.
\* A call of next() that closes the scope ending at e returns Source(cursor, e)
\* and queues the HighlightEnd when the cursor is before e, and returns the
\* HighlightEnd with nothing queued when the cursor is at e; while the last
\* open end equals the cursor the next event read is the HighlightEnd of that
\* scope, so the scopes sharing e are closed by consecutive HighlightEnds; and
\* no two Sources of the stream end at the same position.
C30_EndAloneAtCursor ==
    [][(phase = "span_iter" /\ ~panicked /\ phase' = "span_iter" /\ out' # out) =>
        /\ Len(span_ends') < Len(span_ends) =>
               /\ Len(span_ends') = Len(span_ends) - 1
               /\ cursor' = Last(span_ends)
               /\ IF cursor < Last(span_ends)
                  THEN /\ out' = Append(out, Source(cursor, Last(span_ends)))
                       /\ event_queue' = <<HighlightEnd>>
                  ELSE /\ out' = Append(out, HighlightEnd)
                       /\ event_queue' = <<>>
        /\ (event_queue = <<>> /\ span_ends # <<>> /\ Last(span_ends) = cursor) =>
               /\ out' = Append(out, HighlightEnd)
               /\ span_ends' = Front(span_ends)
               /\ event_queue' = <<>>
        /\ \A i, j \in 1..Len(out') :
               (IsSource(out'[i]) /\ IsSource(out'[j]) /\ out'[i].end = out'[j].end)
                   => i = j]_vars

\* The stream of a vector ended in which two scopes sharing their end were
\* closed by one Source and two HighlightEnds, and a zero-width scope was closed
\* right after its HighlightStart.
C30_Witness ==
    /\ phase = "span_iter"
    /\ done
    /\ \E i \in 1..(Len(out) - 2) :
           /\ IsSource(out[i])
           /\ out[i + 1] = HighlightEnd
           /\ out[i + 2] = HighlightEnd
    /\ \E i \in 1..(Len(out) - 1) :
           /\ IsStart(out[i])
           /\ out[i + 1] = HighlightEnd

\* The work left to a SpanIter, a natural number: the positions of the spans
\* not yet started, the scopes to close, the events queued and the connective
\* Source that is due.
RECURSIVE SumSeq(_)
SumSeq(s) == IF s = <<>> THEN 0 ELSE Head(s) + SumSeq(Tail(s))

WorkLeft ==
    6 * SumSeq([k \in 1..(Len(spans) - index) |->
                   spans[index + k].end - spans[index + k].start + 1])
    + 3 * Len(span_ends)
    + Len(event_queue)
    + (IF index < Len(spans) /\ ConnectiveDue(spans[index + 1], cursor, span_ends)
       THEN 1 ELSE 0)

\* C31: termination. On every vector of spans with start <= end, in any order
\* and in either build, every call of next() that returns an event lowers the
\* work left, a natural number, so only finitely many calls return an event;
\* None is returned only with every span consumed, the event queue empty and no
\* scope open, and once None was returned no later call returns an event.
C31_Termination ==
    [][(phase = "span_iter" /\ phase' = "span_iter" /\ ~panicked) =>
        /\ (out' # out /\ ~panicked') => WorkLeft' < WorkLeft /\ WorkLeft' >= 0
        /\ (done' /\ ~panicked') =>
               index' = Len(spans') /\ event_queue' = <<>> /\ span_ends' = <<>>
        /\ done => done' /\ out' = out]_vars

\* None was returned after a stream in which a span was split: scopes were
\* opened, closed and re-opened before the iterator ran out.
C31_Witness ==
    /\ phase = "span_iter"
    /\ done
    /\ ~panicked
    /\ Len(spans) >= 2
    /\ NumStarts(out) > Len(input)
    /\ last = "none"

\* C32: depth preservation. In the finished stream of a sorted vector the
\* number of scopes open at a Source{a, b} (HighlightStarts minus HighlightEnds
\* before it) is the number of input spans that contain [a, b), and no input
\* span starts or ends strictly inside (a, b).
C32_DepthPreserved ==
    phase = "span_iter" /\ done =>
        \A i \in 1..Len(out) :
            IsSource(out[i]) =>
                /\ NumStarts(SubSeq(out, 1, i)) - NumEnds(SubSeq(out, 1, i))
                       = Cardinality({k \in 1..Len(input) :
                             input[k].start <= out[i].start
                                 /\ out[i].end <= input[k].end})
                /\ \A k \in 1..Len(input) :
                       /\ ~(out[i].start < input[k].start
                               /\ input[k].start < out[i].end)
                       /\ ~(out[i].start < input[k].end
                               /\ input[k].end < out[i].end)

\* The stream of a vector with a split span ended and one of its Sources lies
\* inside two scopes.
C32_Witness ==
    /\ phase = "span_iter"
    /\ done
    /\ NumStarts(out) > Len(input)
    /\ \E i \in 1..Len(out) :
           /\ IsSource(out[i])
           /\ NumStarts(SubSeq(out, 1, i)) - NumEnds(SubSeq(out, 1, i)) >= 2

\* The number of entries of a vector with a given scope and end.
CountScopeEnd(v, scope, end) ==
    Cardinality({k \in 1..Len(v) : v[k].scope = scope /\ v[k].end = end})

\* C33: frame of the working vector. A call of next() keeps the length of
\* spans, never lowers index, keeps the multiset of (scope, end) pairs, leaves
\* the entries before index as they are, and rewrites only start: an entry's
\* start changes only in a partitioning call, only upwards, and only to the
\* partition point, the smallest open end.
C33_WorkingVectorFrame ==
    [][(phase = "span_iter" /\ phase' = "span_iter" /\ ~panicked /\ ~panicked') =>
        /\ Len(spans') = Len(spans)
        /\ index' >= index
        /\ spans' # spans =>
            /\ \A k \in 1..Len(spans) :
                   CountScopeEnd(spans', spans[k].scope, spans[k].end)
                       = CountScopeEnd(spans, spans[k].scope, spans[k].end)
            /\ SubSeq(spans', 1, index) = SubSeq(spans, 1, index)
            /\ \A k \in 1..Len(spans) : \A j \in 1..Len(spans') :
                   (spans'[j].scope = spans[k].scope
                        /\ spans'[j].start # spans[k].start) =>
                       /\ k > index
                       /\ j > index
                       /\ spans'[j].start > spans[k].start
                       /\ span_ends # <<>>
                       /\ spans'[j].start = Last(span_ends)
                       /\ last' = "partition"]_vars

\* A partitioning call has just rewritten the start of an entry and moved it
\* behind another entry of the vector.
C33_Witness ==
    /\ phase = "span_iter"
    /\ ~panicked
    /\ last = "partition"
    /\ \E j \in (index + 1)..Len(spans) : \E k \in 1..Len(input) :
           /\ spans[j].scope = input[k].scope
           /\ spans[j].start > input[k].start
           /\ j # k

\* The number of HighlightStarts of a scope in a stream.
NumStartsOf(events, scope) ==
    Cardinality({i \in 1..Len(events) :
                    IsStart(events[i]) /\ events[i].scope = scope})

\* The start_span calls made before the first one for a scope.
FirstStarted(scope) ==
    CHOOSE m \in 1..Len(started) :
        /\ started[m].scope = scope
        /\ \A n \in 1..(m - 1) : started[n].scope # scope

\* No scope that is open when the span is reached ends strictly inside it: no
\* span or piece started before it has its end between the span's start and end
\* (a scope started earlier with its end after the span's start is still open).
NoOpenEndInside(t) ==
    \A m \in 1..(FirstStarted(t.scope) - 1) :
        ~(t.start < started[m].end /\ started[m].end < t.end)

EndsBeforeOpenEnds(t) ==
    \A m \in 1..(FirstStarted(t.scope) - 1) :
        ~(t.start < started[m].end /\ started[m].end <= t.end /\ started[m].scope # t.scope)

\* The span is not empty and ends exactly at the end of a scope opened before
\* its start, and a span sorted before it has the same start and a later end.
SplitAtItsEnd(k) ==
    /\ input[k].start < input[k].end
    /\ \E m \in 1..(FirstStarted(input[k].scope) - 1) :
           /\ started[m].start < input[k].start
           /\ started[m].end = input[k].end
    /\ \E u \in 1..(k - 1) :
           /\ input[u].start = input[k].start
           /\ input[u].end > input[k].end

NonEmptyNonOverlapping(v) ==
    /\ \A k \in 1..Len(v) : v[k].start < v[k].end
    /\ \A k \in 1..(Len(v) - 1) : v[k + 1].start >= v[k].end

\* C35: on a vector of non-empty spans each of which starts at or after the end
\* of the one before it, span_iter and flat_span_iter, both pulled until None,
\* have returned the same sequence of events: HighlightStart, Source,
\* HighlightEnd for each span in input order.
C35_SameSequenceWhenFlat ==
    (/\ phase = "flat_span_iter"
     /\ done
     /\ flat_done
     /\ NonEmptyNonOverlapping(input)) =>
        /\ out = flat_out
        /\ out = TriplePerSpan(input)

\* Both iterators ended on a vector of at least two such spans, with a gap
\* between two of them and two that touch.
C35_Witness ==
    /\ phase = "flat_span_iter"
    /\ done
    /\ flat_done
    /\ ~panicked
    /\ NonEmptyNonOverlapping(input)
    /\ Len(input) >= 2
    /\ \E k \in 1..(Len(input) - 1) : input[k + 1].start > input[k].end
    /\ out = flat_out
    /\ Len(out) = 3 * Len(input)

----------------------------------------------------------------------------
\* Properties of TreeCursor.

\* C25: whatever calls were made, a cursor whose current layer is not the root
\* layer is not on the root node of that layer.
C25_NeverOnInjectedRoot ==
    tc_phase = "walk" /\ current # 1 => cursors[current].node # 1

\* C36: a call of goto_first_child or goto_parent that returns false leaves
\* the current layer and the current node as they were.
C36_MovesOnlyOnSuccess ==
    [][(/\ tc_phase = "walk"
        /\ tc_last' \in {"goto_first_child", "goto_parent"}
        /\ ~tc_result') =>
           /\ current' = current
           /\ cursors'[current'].node = cursors[current].node]_vars

----------------------------------------------------------------------------
\* Properties of run_parallel.

\* C37: whatever the number of grammars and the interleaving of the pool's
\* threads, when no job has panicked every job's message has been sent by the
\* time pool.join() has returned (so the messages sent are as many as the jobs
\* submitted and no thread is in a closure), and the sum read is the number of
\* jobs: assert_eq! holds.
C37_AllProgressSentBeforeJoinReturns ==
    (rp_pc \in {"read", "done"} /\ panic_count = 0) =>
        /\ channel + sum = n_jobs
        /\ queued_count = 0
        /\ ActiveCount = 0
        /\ rp_pc = "done" => sum = n_jobs /\ assert_ok = "ok"

\* run_parallel has returned after more jobs than the pool has threads, none of
\* which panicked.
C37_Witness ==
    /\ rp_pc = "done"
    /\ panic_count = 0
    /\ n_jobs > NumThreads
    /\ sum = n_jobs
    /\ assert_ok = "ok"

====
